---- MODULE Spec2Model ----
(***************************************************************************)
(* DIMSE message codec of pynetdicom2: the fragmenter, the command-set     *)
(* codec, the message catalog (from_params / to_params) and the P-DATA     *)
(* transport (encode / decode), for the two copies kept in the repository: *)
(*   netdicom2/dimsemessages.py          (impl = "netdicom2")              *)
(*   source/netdicom/DIMSEmessages.py    (impl = "legacy")                 *)
(*                                                                         *)
(* Byte strings are sequences of integers 0..255.  Every Python value of a *)
(* command-set element or of a parameter is a sequence: a string is the    *)
(* sequence of its bytes, the integer n is <<n>>, '' is <<>> and None is   *)
(* the sequence None below.                                                *)
(***************************************************************************)
EXTENDS Integers, Sequences, FiniteSets, TLC

VARIABLES
    pc,            \* position of the scenario that is running
    impl,          \* which copy of the code runs: "netdicom2" or "legacy"
    f_max,         \* fragment: its max_pdu_length argument
    f_in,          \* fragment: its str_ argument
    f_s,           \* fragment: local s
    f_fragments,   \* fragment: local fragments
    params,        \* the parameter object given to from_params
    msg,           \* the sender's DIMSE message
    out_params,    \* the parameter object returned by to_params
    enc_ctx,       \* encode: its id_ argument
    enc_max,       \* encode: its max_pdu_length argument
    p_datas,       \* encode: the list of P-DATA-TF PDUs it returned
    wire,          \* PDUs not yet handed to the receiver's decode
    rx,            \* the receiver's DIMSE message
    rx_ret,        \* what the last decode call returned or raised
    rx_log,        \* one entry per PDV examined by the last decode call
    \* DULServiceProvider
    is_killed,             \* self.is_killed
    current_state,         \* self.state_machine.current_state
    timer,                 \* self.timer: "stopped", "running" or "expired"
    remote_client_socket,  \* self.remote_client_socket: "None" or "open"
    local_server_socket,   \* self.local_server_socket: "None" or "listening"
    event,                 \* self.event, a queue of event names
    from_service_user,     \* self.from_service_user, a queue of primitives
    to_service_user,       \* self.to_service_user, a queue of primitives
    pdu,                   \* self.pdu
    primitive,             \* self.primitive
    loop,                  \* where the provider's thread is inside run()
    raw_pdu,               \* check_incoming_pdu: local raw_pdu
    tick,                  \* what the current pass of the loop has done
    thrown,                \* the exception that left run(), or "none"
    peer,                  \* the remote end of the transport connection
    net_in,                \* bytes the peer has written, not yet read
    net_out,               \* types of the PDUs written to the socket
    stop_ret,              \* what stop() returned, in the state its call leaves
    sends_left,            \* calls of send() the service user may still make
    peer_left,             \* PDUs the peer may still write
    mode,                  \* the arguments DULServiceProvider was given
    first_evt,             \* the first event run() dispatched, or "none"
    receive_ret,           \* what receive() returned, in the state it leaves
    backlog,               \* connections waiting on the listening socket
    connects_left,         \* connections peers may still open to the port
    client_sockets,        \* client sockets the provider has open
    stop_at,               \* where a call of stop() in progress stands
    so_error               \* the client socket holds an error not yet raised

dimse_vars == <<pc, impl, f_max, f_in, f_s, f_fragments, params, msg,
                out_params, enc_ctx, enc_max, p_datas, wire, rx, rx_ret,
                rx_log>>

dul_vars == <<is_killed, current_state, timer, remote_client_socket,
              local_server_socket, event, from_service_user, to_service_user,
              pdu, primitive, loop, raw_pdu, tick, thrown, peer, net_in,
              net_out, stop_ret, sends_left, peer_left, mode, first_evt,
              receive_ret, backlog, connects_left, client_sockets, stop_at,
              so_error>>

vars == <<dimse_vars, dul_vars>>

(***************************************************************************)
(* Bounds of the model.                                                    *)
(***************************************************************************)
MaxFragLen == 5      \* longest byte string given to a stand-alone fragment run
MaxFragPdu == 10     \* largest max_pdu_length of a stand-alone fragment run
MaxDataLen == 12     \* longest data set / identifier of a parameter object
MaxPdvs == 3         \* most PDVs a peer hands to one receiver
MaxPduSpan == 2      \* encode runs with max_pdu_length in 16 .. 16 + MaxPduSpan

(***************************************************************************)
(* Program constants.                                                      *)
(***************************************************************************)
NO_DATASET == 257          \* 0x0101
PRIORITY_LOW == 2
PRIORITY_MEDIUM == 0
PRIORITY_HIGH == 1
PduOverhead == 6           \* maxsize = max_pdu_length - 6
DataSetPresent == 1        \* 0x0001, written by the data_set setter

None == <<-1>>

\* Python truth value of a string (or None) and of an integer (or '' or None).
TruthyStr(v) == v # None /\ v # <<>>
TruthyInt(v) == v # None /\ v # <<>> /\ v # <<0>>

(***************************************************************************)
(* Command-set tags, group 0x0000: the tag is given by its element number. *)
(***************************************************************************)
CommandGroupLength == 0                       \* (0000,0000) UL
AffectedSOPClassUID == 2                      \* (0000,0002) UI
CommandField == 256                           \* (0000,0100) US
MessageID == 272                              \* (0000,0110) US
MessageIDBeingRespondedTo == 288              \* (0000,0120) US
MoveDestination == 1536                       \* (0000,0600) AE
Priority == 1792                              \* (0000,0700) US
DataSetType == 2048                           \* (0000,0800) US
Status == 2304                                \* (0000,0900) US
AffectedSOPInstanceUID == 4096                \* (0000,1000) UI
NumberOfRemainingSubOperations == 4128        \* (0000,1020) US
NumberOfCompletedSubOperations == 4129        \* (0000,1021) US
NumberOfFailedSubOperations == 4130           \* (0000,1022) US
NumberOfWarningSubOperations == 4131          \* (0000,1023) US
MoveOriginatorApplicationEntityTitle == 4144  \* (0000,1030) AE
MoveOriginatorMessageID == 4145               \* (0000,1031) US

\* The value representation the dictionary gives each command tag: the
\* entries DicomDictionary.update adds.  Elements no message class uses are
\* given by their number: 3 is (0000,0003), 2305..2307 are (0000,0901..0903),
\* 4097, 4098, 4101, 4104 are (0000,1001), (0000,1002), (0000,1005),
\* (0000,1008).  A tag without an entry has no representation.
DicomDictionary(tag) ==
    CASE tag = CommandGroupLength -> "UL"
      [] tag \in {AffectedSOPClassUID, 3, AffectedSOPInstanceUID, 4097} -> "UI"
      [] tag \in {MoveDestination, MoveOriginatorApplicationEntityTitle} -> "AE"
      [] tag \in {2305, 4101} -> "AT"
      [] tag = 2306 -> "LO"
      [] tag \in {CommandField, MessageID, MessageIDBeingRespondedTo, Priority,
                  DataSetType, Status, 2307, 4098, 4104,
                  NumberOfRemainingSubOperations, NumberOfCompletedSubOperations,
                  NumberOfFailedSubOperations, NumberOfWarningSubOperations,
                  MoveOriginatorMessageID} -> "US"
      [] OTHER -> "KeyError"

(***************************************************************************)
(* fragment(max_pdu_length, str_): one iteration of its while loop, and    *)
(* the whole function as the iteration of that step.                       *)
(***************************************************************************)
Min(a, b) == IF a < b THEN a ELSE b

\* Python slices s[:n] and s[n:] for n >= 0.
Take(s, n) == SubSeq(s, 1, Min(n, Len(s)))
Drop(s, n) == SubSeq(s, Min(n, Len(s)) + 1, Len(s))

\* A chunk size that leaves room for five bytes of headers instead of six:
\* a fragmenter whose chunks can be one byte too long.
MaxsizeOffByOne(max_pdu_length) == max_pdu_length - 5

\* fragment: maxsize = max_pdu_length - 6
maxsize(max_pdu_length) == max_pdu_length - PduOverhead

\* A loop body that appends the rest also when it is empty.
FragmentIterKeepsEmpty(size, s, fragments) ==
    LET appended == Append(fragments, Take(s, size))
        rest == Drop(s, size)
    IN  IF Len(rest) <= size
        THEN [done |-> TRUE, s |-> rest, fragments |-> Append(appended, rest)]
        ELSE [done |-> FALSE, s |-> rest, fragments |-> appended]

\* The loop body: append s[:maxsize], cut s, and return when the rest fits.
FragmentIter(size, s, fragments) ==
    LET appended == Append(fragments, Take(s, size))
        rest == Drop(s, size)
    IN  IF Len(rest) <= size
        THEN [done |-> TRUE, s |-> rest,
              fragments |-> IF Len(rest) > 0 THEN Append(appended, rest)
                            ELSE appended]
        ELSE [done |-> FALSE, s |-> rest, fragments |-> appended]

RECURSIVE FragmentLoop(_, _, _)
FragmentLoop(size, s, fragments) ==
    LET r == FragmentIter(size, s, fragments)
    IN  IF r.done THEN r.fragments ELSE FragmentLoop(size, r.s, r.fragments)

fragment(max_pdu_length, str_) ==
    FragmentLoop(maxsize(max_pdu_length), str_, <<>>)

RECURSIVE Join(_)
Join(chunks) ==
    IF chunks = <<>> THEN <<>> ELSE Head(chunks) \o Join(Tail(chunks))

(***************************************************************************)
(* The data-set codec the messages delegate to (dsutils.encode,            *)
(* dsutils.decode, dsutils.encode_element), implicit-VR little-endian:     *)
(* group(2) element(2) length(4) value, elements in ascending tag order.   *)
(* A data set is a function from its tags to their values.                 *)
(***************************************************************************)
LE2(n) == <<n % 256, (n \div 256) % 256>>
LE4(n) == LE2(n % 65536) \o LE2((n \div 65536) % 65536)

RECURSIVE FromLE(_)
FromLE(bytes) ==
    IF bytes = <<>> THEN 0 ELSE Head(bytes) + 256 * FromLE(Tail(bytes))

\* The bytes of a value: numbers in little-endian, nothing for '', strings
\* padded to an even length (UI with NUL, AE with a space).
EncodeValue(tag, v) ==
    CASE DicomDictionary(tag) = "US" -> IF v = <<>> THEN <<>> ELSE LE2(v[1])
      [] DicomDictionary(tag) = "UL" -> IF v = <<>> THEN <<>> ELSE LE4(v[1])
      [] DicomDictionary(tag) = "UI" -> IF Len(v) % 2 = 1 THEN Append(v, 0) ELSE v
      [] OTHER -> IF Len(v) % 2 = 1 THEN Append(v, 32) ELSE v

\* The value of an element read back: a zero-length number is '', a string
\* loses one trailing padding byte.
DecodeValue(tag, bytes) ==
    CASE DicomDictionary(tag) \in {"US", "UL"} ->
            IF bytes = <<>> THEN <<>> ELSE <<FromLE(bytes)>>
      [] OTHER ->
            IF bytes # <<>> /\ bytes[Len(bytes)] \in {0, 32}
            THEN SubSeq(bytes, 1, Len(bytes) - 1) ELSE bytes

encode_element(tag, v) ==
    LE2(0) \o LE2(tag) \o LE4(Len(EncodeValue(tag, v))) \o EncodeValue(tag, v)

RECURSIVE SortedTags(_)
SortedTags(S) ==
    IF S = {} THEN <<>>
    ELSE LET m == CHOOSE x \in S : \A y \in S : x <= y
         IN  <<m>> \o SortedTags(S \ {m})

\* The tags of a data set in the order the encoder walks them: by tag.
DatasetValues(ds) == SortedTags(DOMAIN ds)

dsutils_encode(ds) ==
    LET tags == DatasetValues(ds)
    IN  Join([i \in 1..Len(tags) |-> encode_element(tags[i], ds[tags[i]])])

\* Whether the bytes of a value have the size its representation asks for.
\* Numbers of 2^31 and more are beyond the integers of the model.
WellFormed(tag, bytes) ==
    CASE DicomDictionary(tag) = "US" -> Len(bytes) \in {0, 2}
      [] DicomDictionary(tag) = "UL" ->
            Len(bytes) = 0 \/ (Len(bytes) = 4 /\ bytes[4] < 128)
      [] OTHER -> TRUE

\* Reading elements until the bytes are used up; ok is FALSE when the bytes
\* end inside an element or do not hold a well-formed element of group 0000.
RECURSIVE DecodeElements(_, _)
DecodeElements(bytes, ds) ==
    IF bytes = <<>> THEN [ok |-> TRUE, ds |-> ds]
    ELSE IF Len(bytes) < 8 THEN [ok |-> FALSE, ds |-> ds]
    ELSE LET tag == FromLE(SubSeq(bytes, 3, 4))
             length == FromLE(SubSeq(bytes, 5, 6))
         IN  IF \/ SubSeq(bytes, 1, 2) # <<0, 0>>
                \/ SubSeq(bytes, 7, 8) # <<0, 0>>
                \/ Len(bytes) < 8 + length
                \/ ~WellFormed(tag, SubSeq(bytes, 9, 8 + length))
             THEN [ok |-> FALSE, ds |-> ds]
             ELSE DecodeElements(
                      Drop(bytes, 8 + length),
                      (tag :> DecodeValue(tag, SubSeq(bytes, 9, 8 + length))) @@ ds)

dsutils_decode(bytes) == DecodeElements(bytes, <<>>)

(***************************************************************************)
(* The message catalog.  A message is a record                             *)
(*   cls, command_set, data_set, encoded_command_set, encoded_data_set, id_*)
(* and a parameter object is a record of the fields below.  An element of  *)
(* the command set handed to a parameter object stands for its value.      *)
(***************************************************************************)
Variants ==
    {"CEchoRQMessage", "CEchoRSPMessage", "CStoreRQMessage", "CStoreRSPMessage",
     "CFindRQMessage", "CFindRSPMessage", "CGetRQMessage", "CGetRSPMessage",
     "CMoveRQMessage", "CMoveRSPMessage", "CCancelRQMessage"}

\* MESSAGE_TYPE (netdicom2) and MessageType (legacy): opcode -> class.
MESSAGE_TYPE ==
    (1 :> "CStoreRQMessage") @@ (32769 :> "CStoreRSPMessage") @@
    (32 :> "CFindRQMessage") @@ (32800 :> "CFindRSPMessage") @@
    (4095 :> "CCancelRQMessage") @@
    (16 :> "CGetRQMessage") @@ (32784 :> "CGetRSPMessage") @@
    (33 :> "CMoveRQMessage") @@ (32801 :> "CMoveRSPMessage") @@
    (48 :> "CEchoRQMessage") @@ (32816 :> "CEchoRSPMessage")

CommandFieldAsRegistered(cls) ==
    IF cls \in Variants
    THEN <<CHOOSE k \in DOMAIN MESSAGE_TYPE : MESSAGE_TYPE[k] = cls>>
    ELSE None

\* The class attribute command_field of netdicom2.
command_field(cls) ==
    CASE cls = "CEchoRQMessage" -> <<48>>          \* 0x0030
      [] cls = "CEchoRSPMessage" -> <<32816>>      \* 0x8030
      [] cls = "CStoreRQMessage" -> <<1>>          \* 0x0001
      [] cls = "CStoreRSPMessage" -> <<257>>       \* 0x0101
      [] cls = "CFindRQMessage" -> <<32>>          \* 0x0020
      [] cls = "CFindRSPMessage" -> <<257>>        \* 0x0101
      [] cls = "CGetRQMessage" -> <<16>>           \* 0x0010
      [] cls = "CGetRSPMessage" -> <<32784>>       \* 0x8010
      [] cls = "CMoveRQMessage" -> <<33>>          \* 0x0021
      [] cls = "CMoveRSPMessage" -> <<32801>>      \* 0x8021
      [] cls = "CCancelRQMessage" -> <<4095>>      \* 0x0FFF
      [] OTHER -> None                             \* DIMSEMessage

\* The opcode the legacy from_params writes into (0000,0100).
LegacyCommandField(cls) ==
    CASE cls = "CEchoRQMessage" -> <<48>>
      [] cls = "CEchoRSPMessage" -> <<32816>>
      [] cls = "CStoreRQMessage" -> <<1>>
      [] cls = "CStoreRSPMessage" -> <<32769>>     \* 0x8001
      [] cls = "CFindRQMessage" -> <<32>>
      [] cls = "CFindRSPMessage" -> <<32800>>      \* 0x8020
      [] cls = "CGetRQMessage" -> <<16>>
      [] cls = "CGetRSPMessage" -> <<32784>>
      [] cls = "CMoveRQMessage" -> <<33>>
      [] cls = "CMoveRSPMessage" -> <<32801>>
      [] OTHER -> <<4095>>

SubOperationTags ==
    {NumberOfRemainingSubOperations, NumberOfCompletedSubOperations,
     NumberOfFailedSubOperations, NumberOfWarningSubOperations}

\* The class attribute command_fields of netdicom2, as the set of its tags.
command_fields(cls) ==
    CASE cls = "CEchoRQMessage" ->
            {CommandGroupLength, AffectedSOPClassUID, MessageID}
      [] cls = "CEchoRSPMessage" ->
            {CommandGroupLength, AffectedSOPClassUID, MessageIDBeingRespondedTo,
             Status}
      [] cls = "CStoreRQMessage" ->
            {CommandGroupLength, AffectedSOPClassUID, MessageID, Priority,
             AffectedSOPInstanceUID, MoveOriginatorApplicationEntityTitle,
             MoveOriginatorMessageID}
      [] cls = "CStoreRSPMessage" ->
            {CommandGroupLength, AffectedSOPClassUID, MessageIDBeingRespondedTo,
             Status, AffectedSOPInstanceUID}
      [] cls \in {"CFindRQMessage", "CGetRQMessage"} ->
            {CommandGroupLength, AffectedSOPClassUID, MessageID, Priority}
      [] cls = "CFindRSPMessage" ->
            {CommandGroupLength, AffectedSOPClassUID, MessageIDBeingRespondedTo,
             Status}
      [] cls \in {"CGetRSPMessage", "CMoveRSPMessage"} ->
            {CommandGroupLength, AffectedSOPClassUID, MessageIDBeingRespondedTo,
             Status} \cup SubOperationTags
      [] cls = "CMoveRQMessage" ->
            {CommandGroupLength, AffectedSOPClassUID, MessageID, Priority,
             MoveDestination}
      [] cls = "CCancelRQMessage" ->
            {CommandGroupLength, MessageIDBeingRespondedTo}
      [] OTHER -> {}

\* The legacy command_fields name (0000,0100) and (0000,0800) themselves.
LegacyCommandFields(cls) ==
    IF cls \in Variants
    THEN command_fields(cls) \cup {CommandField, DataSetType}
    ELSE {}

\* DIMSEMessage.__init__ of netdicom2.
NewMessage(cls) ==
    [cls |-> cls,
     command_set |-> (CommandField :> command_field(cls)) @@
                     (DataSetType :> <<NO_DATASET>>) @@
                     [t \in command_fields(cls) |-> <<>>],
     data_set |-> <<>>,
     encoded_command_set |-> <<>>,
     encoded_data_set |-> <<>>,
     id_ |-> None]

\* DIMSEMessage.__init__ of the legacy copy.
LegacyNewMessage(cls) ==
    [cls |-> cls,
     command_set |-> IF LegacyCommandFields(cls) = {} THEN None
                     ELSE [t \in LegacyCommandFields(cls) |-> <<>>],
     data_set |-> None,
     encoded_command_set |-> <<>>,
     encoded_data_set |-> None,
     id_ |-> None]

\* A setter that announces a data set whatever the value is.
SetDataSetAlwaysPresent(m, value) ==
    [m EXCEPT !.command_set = (DataSetType :> <<DataSetPresent>>) @@ @,
              !.data_set = value]

\* A setter that never touches DataSetType.
SetDataSetKeepsType(m, value) == [m EXCEPT !.data_set = value]

\* The data_set property setter of netdicom2.
set_data_set(m, value) ==
    [m EXCEPT !.command_set =
                  IF TruthyStr(value)
                  THEN (DataSetType :> <<DataSetPresent>>) @@ @ ELSE @,
              !.data_set = value]

RECURSIVE SumLengths(_, _)
SumLengths(ds, tags) ==
    IF tags = <<>> THEN 0
    ELSE Len(encode_element(Head(tags), ds[Head(tags)]))
         + SumLengths(ds, Tail(tags))

\* command_set.values() of the Python 2 dict the data set is: the elements
\* in the order of the slots of the hash table.  The tags 0x0000, 0x0100
\* and 0x0800 all hash to slot 0; the one inserted first holds it, also
\* after the table is resized, and the others follow.  head is that tag.
DictValues(ds, head) == <<head>> \o SortedTags(DOMAIN ds \ {head})

\* set_length of netdicom2: (0000,0000) := the summed encoded length of
\* values()[1:].  __init__ inserts CommandField first, so values()[0] is
\* the CommandField element.
set_length(m) ==
    [m EXCEPT !.command_set[CommandGroupLength] =
        <<SumLengths(m.command_set,
                     Tail(DictValues(m.command_set, CommandField)))>>]

\* set_length of the legacy copy: __init__ inserts the group length first,
\* so values()[0] is the CommandGroupLength element.
LegacySetLength(m) ==
    [m EXCEPT !.command_set[CommandGroupLength] =
        <<SumLengths(m.command_set,
                     Tail(DictValues(m.command_set, CommandGroupLength)))>>]

(***************************************************************************)
(* from_params, netdicom2.                                                 *)
(***************************************************************************)
\* self.command_set[tag].value = v for every tag of the function vals.
SetValues(m, vals) == [m EXCEPT !.command_set = vals @@ @]

SubOperationValues(p) ==
    (NumberOfRemainingSubOperations :> p.num_of_remaining_sub_ops) @@
    (NumberOfCompletedSubOperations :> p.num_of_completed_sub_ops) @@
    (NumberOfFailedSubOperations :> p.num_of_failed_sub_ops) @@
    (NumberOfWarningSubOperations :> p.num_of_warning_sub_ops)

RequestValues(p) ==
    (AffectedSOPClassUID :> p.affected_sop_class_uid) @@
    (MessageID :> p.message_id)

ResponseValues(p) ==
    (AffectedSOPClassUID :> p.affected_sop_class_uid) @@
    (MessageIDBeingRespondedTo :> p.message_id_being_responded_to) @@
    (Status :> p.status)

MoveOriginatorValues(p) ==
    (MoveOriginatorApplicationEntityTitle :>
        IF TruthyStr(p.move_originator_aet) THEN p.move_originator_aet
        ELSE <<>>) @@
    (MoveOriginatorMessageID :>
        IF TruthyInt(p.move_originator_message_id)
        THEN p.move_originator_message_id ELSE <<>>)

\* The fields CStoreRSPMessage.from_params and CFindRSPMessage.from_params
\* read as params.<field>.value, in the order they read them.  Every other
\* field, and every field of the other classes, is read as it is.
ValueReads(cls) ==
    CASE cls = "CStoreRSPMessage" ->
            <<"affected_sop_class_uid", "message_id_being_responded_to",
              "affected_sop_instance_uid">>
      [] cls = "CFindRSPMessage" ->
            <<"affected_sop_class_uid", "message_id_being_responded_to">>
      [] OTHER -> <<>>

\* How many of these reads succeed before the first one made on a field that
\* holds a plain value (a str, an int or None has no attribute value).
ReadsDone(cls, p) ==
    LET failing == {i \in 1..Len(ValueReads(cls)) :
                       ValueReads(cls)[i] \notin p.elements}
    IN  IF failing = {} THEN Len(ValueReads(cls))
        ELSE (CHOOSE i \in failing : \A j \in failing : i <= j) - 1

\* The exception from_params ends with, "none" when it returns.
from_params_raises(cls, p) ==
    IF ReadsDone(cls, p) < Len(ValueReads(cls)) THEN "AttributeError"
    ELSE "none"

\* from_params of every variant: the message as the call leaves it, which is
\* the message with the assignments made before the raise when it raises.
from_params(m, p) ==
    CASE m.cls = "CEchoRQMessage" ->
            set_length(SetValues(m, RequestValues(p)))
      [] m.cls = "CEchoRSPMessage" ->
            set_length(SetValues(m,
                (IF TruthyStr(p.affected_sop_class_uid)
                 THEN (AffectedSOPClassUID :> p.affected_sop_class_uid)
                 ELSE <<>>) @@
                (MessageIDBeingRespondedTo :> p.message_id_being_responded_to) @@
                (Status :> p.status)))
      [] m.cls = "CStoreRQMessage" ->
            set_length(set_data_set(
                SetValues(m, RequestValues(p) @@ (Priority :> p.priority) @@
                             (AffectedSOPInstanceUID :> p.affected_sop_instance_uid) @@
                             MoveOriginatorValues(p)),
                p.data_set))
      [] m.cls = "CStoreRSPMessage" ->
            CASE ReadsDone(m.cls, p) = 0 -> m
              [] ReadsDone(m.cls, p) = 1 ->
                    SetValues(m, (AffectedSOPClassUID :> p.affected_sop_class_uid))
              [] ReadsDone(m.cls, p) = 2 -> SetValues(m, ResponseValues(p))
              [] OTHER ->
                    set_length(SetValues(m, ResponseValues(p) @@
                        (AffectedSOPInstanceUID :> p.affected_sop_instance_uid)))
      [] m.cls \in {"CFindRQMessage", "CGetRQMessage"} ->
            set_length(set_data_set(
                SetValues(m, RequestValues(p) @@ (Priority :> p.priority)),
                p.identifier))
      [] m.cls = "CFindRSPMessage" ->
            CASE ReadsDone(m.cls, p) = 0 -> m
              [] ReadsDone(m.cls, p) = 1 ->
                    SetValues(m, (AffectedSOPClassUID :> p.affected_sop_class_uid))
              [] OTHER ->
                    set_length(set_data_set(SetValues(m, ResponseValues(p)),
                                            p.identifier))
      [] m.cls \in {"CGetRSPMessage", "CMoveRSPMessage"} ->
            set_length(SetValues(m, ResponseValues(p) @@ SubOperationValues(p)))
      [] m.cls = "CMoveRQMessage" ->
            set_length(set_data_set(
                SetValues(m, RequestValues(p) @@ (Priority :> p.priority) @@
                             (MoveDestination :> p.move_destination)),
                p.identifier))
      [] OTHER ->   \* CCancelRQMessage
            set_length(SetValues(m,
                (MessageIDBeingRespondedTo :> p.message_id_being_responded_to)))

(***************************************************************************)
(* from_params, legacy copy: it writes (0000,0100) and (0000,0800) itself  *)
(* and assigns data_set as a plain attribute.                              *)
(***************************************************************************)
LegacyDataSetType(cls, p) ==
    CASE cls \in {"CStoreRQMessage", "CFindRQMessage", "CGetRQMessage",
                  "CMoveRQMessage"} -> <<1>>                 \* 0x0001
      [] cls = "CFindRSPMessage" ->
            IF ~TruthyStr(p.identifier) THEN <<NO_DATASET>> ELSE <<0>>
      [] OTHER -> <<NO_DATASET>>

LegacyDataSet(m, p) ==
    CASE m.cls = "CStoreRQMessage" -> p.data_set
      [] m.cls \in {"CFindRQMessage", "CFindRSPMessage", "CGetRQMessage",
                    "CMoveRQMessage"} -> p.identifier
      [] m.cls \in {"CEchoRQMessage", "CStoreRSPMessage"} -> None
      [] OTHER -> m.data_set

LegacyValues(cls, p) ==
    CASE cls = "CEchoRQMessage" -> RequestValues(p)
      [] cls = "CEchoRSPMessage" ->
            (IF TruthyStr(p.affected_sop_class_uid)
             THEN (AffectedSOPClassUID :> p.affected_sop_class_uid)
             ELSE <<>>) @@
            (MessageIDBeingRespondedTo :> p.message_id_being_responded_to) @@
            (Status :> p.status)
      [] cls = "CStoreRQMessage" ->
            RequestValues(p) @@ (Priority :> p.priority) @@
            (AffectedSOPInstanceUID :> p.affected_sop_instance_uid) @@
            MoveOriginatorValues(p)
      [] cls = "CStoreRSPMessage" ->
            CASE ReadsDone(cls, p) = 0 -> <<>>
              [] ReadsDone(cls, p) = 1 ->
                    (AffectedSOPClassUID :> p.affected_sop_class_uid)
              [] ReadsDone(cls, p) = 2 -> ResponseValues(p)
              [] OTHER ->
                    ResponseValues(p) @@
                    (AffectedSOPInstanceUID :> p.affected_sop_instance_uid)
      [] cls \in {"CFindRQMessage", "CGetRQMessage"} ->
            RequestValues(p) @@ (Priority :> p.priority)
      [] cls = "CFindRSPMessage" ->
            CASE ReadsDone(cls, p) = 0 -> <<>>
              [] ReadsDone(cls, p) = 1 ->
                    (AffectedSOPClassUID :> p.affected_sop_class_uid)
              [] OTHER -> ResponseValues(p)
      [] cls \in {"CGetRSPMessage", "CMoveRSPMessage"} ->
            ResponseValues(p) @@ SubOperationValues(p)
      [] cls = "CMoveRQMessage" ->
            RequestValues(p) @@ (Priority :> p.priority) @@
            (MoveDestination :> p.move_destination)
      [] OTHER ->
            (MessageIDBeingRespondedTo :> p.message_id_being_responded_to)

\* The constants the legacy from_params has written when it raises: it
\* writes (0000,0100) after its first read and (0000,0800) after its second
\* (CStoreRSPMessage; CFindRSPMessage has no read after the second).
LegacyConstantsBeforeRaise(cls, p) ==
    (IF ReadsDone(cls, p) >= 1
     THEN (CommandField :> LegacyCommandField(cls)) ELSE <<>>) @@
    (IF ReadsDone(cls, p) >= 2
     THEN (DataSetType :> LegacyDataSetType(cls, p)) ELSE <<>>)

\* from_params of every variant of the legacy copy: the message as the call
\* leaves it.
LegacyFromParams(m, p) ==
    IF from_params_raises(m.cls, p) # "none"
    THEN SetValues(m, LegacyValues(m.cls, p) @@
                      LegacyConstantsBeforeRaise(m.cls, p))
    ELSE LegacySetLength(
             [SetValues(m, LegacyValues(m.cls, p) @@
                           (CommandField :> LegacyCommandField(m.cls)) @@
                           (DataSetType :> LegacyDataSetType(m.cls, p)))
              EXCEPT !.data_set = LegacyDataSet(m, p)])

(***************************************************************************)
(* to_params, netdicom2.  A parameter object is a record of these fields;  *)
(* a field never assigned is None.  elements is the set of the fields that *)
(* hold a DataElement (an object with an attribute value) rather than a    *)
(* plain value; such a field is written here as the element's value.       *)
(***************************************************************************)
DefaultParams(kind) ==
    [kind |-> kind, elements |-> {},
     affected_sop_class_uid |-> None, message_id |-> None,
     message_id_being_responded_to |-> None, priority |-> None,
     status |-> None, affected_sop_instance_uid |-> None,
     move_originator_aet |-> None, move_originator_message_id |-> None,
     data_set |-> None, dataset |-> None, identifier |-> None,
     move_destination |-> None,
     num_of_remaining_sub_ops |-> None, num_of_completed_sub_ops |-> None,
     num_of_failed_sub_ops |-> None, num_of_warning_sub_ops |-> None]

\* command_set.get(tag)
Get(ds, tag) == IF tag \in DOMAIN ds THEN ds[tag] ELSE None

\* The parameter class each message class converts to.
ServiceParameters(cls) ==
    CASE cls \in {"CEchoRQMessage", "CEchoRSPMessage"} -> "CEchoServiceParameters"
      [] cls \in {"CStoreRQMessage", "CStoreRSPMessage"} -> "CStoreServiceParameters"
      [] cls \in {"CFindRQMessage", "CFindRSPMessage"} -> "CFindServiceParameters"
      [] cls \in {"CGetRQMessage", "CGetRSPMessage"} -> "CGetServiceParameters"
      [] cls \in {"CMoveRQMessage", "CMoveRSPMessage"} -> "CMoveServiceParameters"
      [] OTHER -> "AttributeError"   \* CCancelRQMessage defines no to_params

SubOperationParams(m, tmp) ==
    [tmp EXCEPT
        !.num_of_remaining_sub_ops = Get(m.command_set, NumberOfRemainingSubOperations),
        !.num_of_completed_sub_ops = Get(m.command_set, NumberOfCompletedSubOperations),
        !.num_of_failed_sub_ops = Get(m.command_set, NumberOfFailedSubOperations),
        !.num_of_warning_sub_ops = Get(m.command_set, NumberOfWarningSubOperations)]

\* CEchoRSPMessage.to_params: tmp.status = 0
EchoRspStatus(m) == <<0>>

\* The element each field of a parameter object is taken from.
FieldTag(field) ==
    CASE field = "affected_sop_class_uid" -> AffectedSOPClassUID
      [] field = "message_id" -> MessageID
      [] field = "message_id_being_responded_to" -> MessageIDBeingRespondedTo
      [] field = "priority" -> Priority
      [] field = "status" -> Status
      [] field = "affected_sop_instance_uid" -> AffectedSOPInstanceUID
      [] field = "move_destination" -> MoveDestination
      [] field = "num_of_remaining_sub_ops" -> NumberOfRemainingSubOperations
      [] field = "num_of_completed_sub_ops" -> NumberOfCompletedSubOperations
      [] field = "num_of_failed_sub_ops" -> NumberOfFailedSubOperations
      [] field = "num_of_warning_sub_ops" -> NumberOfWarningSubOperations

\* The fields to_params assigns the element itself (command_set.get(tag) or
\* command_set[tag]); CGetRQMessage.to_params assigns values.
ElementFields(cls) ==
    CASE cls = "CEchoRQMessage" -> {"message_id", "affected_sop_class_uid"}
      [] cls = "CEchoRSPMessage" ->
            {"affected_sop_class_uid", "message_id_being_responded_to"}
      [] cls = "CStoreRQMessage" ->
            {"affected_sop_class_uid", "affected_sop_instance_uid", "priority",
             "message_id"}
      [] cls = "CStoreRSPMessage" ->
            {"affected_sop_class_uid", "message_id_being_responded_to",
             "status", "affected_sop_instance_uid"}
      [] cls = "CFindRQMessage" ->
            {"affected_sop_class_uid", "priority", "message_id"}
      [] cls = "CFindRSPMessage" ->
            {"affected_sop_class_uid", "message_id_being_responded_to",
             "status"}
      [] cls \in {"CGetRSPMessage", "CMoveRSPMessage"} ->
            {"affected_sop_class_uid", "message_id_being_responded_to",
             "status", "num_of_remaining_sub_ops", "num_of_completed_sub_ops",
             "num_of_failed_sub_ops", "num_of_warning_sub_ops"}
      [] cls = "CMoveRQMessage" ->
            {"message_id", "affected_sop_class_uid", "priority",
             "move_destination"}
      [] OTHER -> {}

\* The exception to_params ends with, "none" when it returns:
\* CFindRQMessage subscripts command_set[(0000,0002)], CGetRQMessage takes
\* .value of what command_set.get returns, which is None for an element the
\* command set does not hold.
to_params_raises(m) ==
    CASE m.cls = "CFindRQMessage"
            /\ AffectedSOPClassUID \notin DOMAIN m.command_set -> "KeyError"
      [] m.cls = "CGetRQMessage"
            /\ {MessageID, AffectedSOPClassUID, Priority}
                   \ DOMAIN m.command_set # {} -> "AttributeError"
      [] OTHER -> "none"

\* What to_params assigns when it runs to its return.
ToParamsFields(m) ==
    LET tmp == [DefaultParams(ServiceParameters(m.cls)) EXCEPT
                   !.elements = {f \in ElementFields(m.cls) :
                                    FieldTag(f) \in DOMAIN m.command_set}]
        cs == m.command_set
    IN  CASE m.cls = "CEchoRQMessage" ->
                [tmp EXCEPT !.message_id = Get(cs, MessageID),
                            !.affected_sop_class_uid = Get(cs, AffectedSOPClassUID)]
          [] m.cls = "CEchoRSPMessage" ->
                [tmp EXCEPT !.affected_sop_class_uid = Get(cs, AffectedSOPClassUID),
                            !.message_id_being_responded_to =
                                Get(cs, MessageIDBeingRespondedTo),
                            !.status = EchoRspStatus(m)]
          [] m.cls = "CStoreRQMessage" ->
                [tmp EXCEPT !.affected_sop_class_uid = Get(cs, AffectedSOPClassUID),
                            !.affected_sop_instance_uid =
                                Get(cs, AffectedSOPInstanceUID),
                            !.priority = Get(cs, Priority),
                            !.dataset = m.data_set,
                            !.message_id = Get(cs, MessageID)]
          [] m.cls = "CStoreRSPMessage" ->
                [tmp EXCEPT !.affected_sop_class_uid = Get(cs, AffectedSOPClassUID),
                            !.message_id_being_responded_to =
                                Get(cs, MessageIDBeingRespondedTo),
                            !.status = Get(cs, Status),
                            !.affected_sop_instance_uid =
                                Get(cs, AffectedSOPInstanceUID),
                            !.dataset = m.data_set]
          [] m.cls \in {"CFindRQMessage", "CGetRQMessage"} ->
                [tmp EXCEPT !.affected_sop_class_uid = Get(cs, AffectedSOPClassUID),
                            !.priority = Get(cs, Priority),
                            !.identifier = m.data_set,
                            !.message_id = Get(cs, MessageID)]
          [] m.cls = "CFindRSPMessage" ->
                [tmp EXCEPT !.affected_sop_class_uid = Get(cs, AffectedSOPClassUID),
                            !.message_id_being_responded_to =
                                Get(cs, MessageIDBeingRespondedTo),
                            !.status = Get(cs, Status),
                            !.identifier = m.data_set]
          [] m.cls \in {"CGetRSPMessage", "CMoveRSPMessage"} ->
                SubOperationParams(m,
                    [tmp EXCEPT !.affected_sop_class_uid =
                                    Get(cs, AffectedSOPClassUID),
                                !.message_id_being_responded_to =
                                    Get(cs, MessageIDBeingRespondedTo),
                                !.status = Get(cs, Status),
                                !.identifier = m.data_set])
          [] m.cls = "CMoveRQMessage" ->
                [tmp EXCEPT !.message_id = Get(cs, MessageID),
                            !.affected_sop_class_uid = Get(cs, AffectedSOPClassUID),
                            !.priority = Get(cs, Priority),
                            !.move_destination = Get(cs, MoveDestination),
                            !.identifier = m.data_set]
          [] OTHER -> tmp

\* to_params of every variant: the parameter object returned, or one that
\* holds nothing and carries the name of the exception as its kind.
to_params(m) ==
    IF to_params_raises(m) # "none" THEN DefaultParams(to_params_raises(m))
    ELSE ToParamsFields(m)

(***************************************************************************)
(* The P-DATA transport.  A P-DATA-TF PDU (netdicom2) or P-DATA primitive  *)
(* (legacy) is [kind, data_value_items]; a PDV is [context_id, data_value],*)
(* data_value being the control header byte followed by the fragment.      *)
(***************************************************************************)
PDataKind(im) ==
    IF im = "netdicom2" THEN "PDataTfPDU" ELSE "PDataServiceParameters"

\* One PDU holding the single PDV (id_, header + fragment).
PData(im, id_, header, frag) ==
    LET value_item == [context_id |-> id_, data_value |-> (<<header>> \o frag)]
    IN  [kind |-> PDataKind(im), data_value_items |-> << value_item >>]

\* The PDUs of one phase: `more` heads every fragment but the last, `last`
\* the last one.
PhasePDUs(im, id_, pdvs, more, last) ==
    [i \in 1..Len(pdvs) |->
        PData(im, id_, IF i < Len(pdvs) THEN more ELSE last, pdvs[i])]

\* The test that decides whether encode emits data PDVs.
LegacyHasDataSet(m) == m.data_set # None

HasDataSet(m) == TruthyStr(m.data_set)

\* An encoder that emits the data fragments before the command fragments.
EncodeDataFirst(m, id_, max_pdu_length) ==
    (IF HasDataSet(m)
     THEN PhasePDUs("netdicom2", id_, fragment(max_pdu_length, m.data_set), 0, 2)
     ELSE <<>>)
    \o PhasePDUs("netdicom2", id_,
                 fragment(max_pdu_length, dsutils_encode(m.command_set)), 1, 3)

\* DIMSEMessage.encode of netdicom2: the list of PDUs it returns.
encode(m, id_, max_pdu_length) ==
    PhasePDUs("netdicom2", id_,
              fragment(max_pdu_length, dsutils_encode(m.command_set)), 1, 3)
    \o (IF HasDataSet(m)
        THEN PhasePDUs("netdicom2", id_,
                       fragment(max_pdu_length, m.data_set), 0, 2)
        ELSE <<>>)

\* DIMSEMessage.encode of the legacy copy.
LegacyEncode(m, id_, max_pdu_length) ==
    PhasePDUs("legacy", id_,
              fragment(max_pdu_length, dsutils_encode(m.command_set)), 1, 3)
    \o (IF LegacyHasDataSet(m)
        THEN PhasePDUs("legacy", id_,
                       fragment(max_pdu_length, m.data_set), 0, 2)
        ELSE <<>>)

\* A reading of the control header that keeps its two low bits only.
MarkerLowBits(value_item) == value_item.data_value[1] % 4

\* struct.unpack('b', byte): the control header read as a signed byte.
Marker(value_item) ==
    LET b == value_item.data_value[1] IN IF b > 127 THEN b - 256 ELSE b

Payload(value_item) == Tail(value_item.data_value)

\* What follows the decoding of the command set on a last command fragment:
\* the class is looked up by (0000,0100), then (0000,0800) decides.
Narrow(m) ==
    LET cs == m.command_set
    IN  IF ~(CommandField \in DOMAIN cs /\ cs[CommandField] # <<>>
             /\ cs[CommandField][1] \in DOMAIN MESSAGE_TYPE)
        THEN [m |-> m, ret |-> "KeyError"]
        ELSE LET n == [m EXCEPT !.cls = MESSAGE_TYPE[cs[CommandField][1]]]
             IN  IF DataSetType \notin DOMAIN cs
                 THEN [m |-> n, ret |-> "KeyError"]
                 ELSE [m |-> n,
                       ret |-> IF cs[DataSetType] = <<NO_DATASET>>
                               THEN "True" ELSE "continue"]

\* The body of decode's for loop in netdicom2, for one PDV.  ret is
\* "continue" when the loop goes on, "True" when decode returns True, and
\* otherwise the exception raised.
decode_pdv(m, value_item) ==
    LET m1 == [m EXCEPT !.id_ = value_item.context_id]
        marker == Marker(value_item)
    IN  IF marker \in {1, 3}
        THEN LET m2 == [m1 EXCEPT !.encoded_command_set =
                                      Append(@, Payload(value_item))]
                 d == dsutils_decode(Join(m2.encoded_command_set))
             IN  IF marker # 3 THEN [m |-> m2, ret |-> "continue"]
                 ELSE IF ~d.ok THEN [m |-> m2, ret |-> "DecodeError"]
                 ELSE Narrow([m2 EXCEPT !.command_set = d.ds,
                                        !.encoded_command_set = <<>>])
        ELSE IF marker \in {0, 2}
        THEN LET m2 == [m1 EXCEPT !.encoded_data_set =
                                      Append(@, Payload(value_item))]
             IN  IF marker # 2 THEN [m |-> m2, ret |-> "continue"]
                 ELSE [m |-> [set_data_set(m2, Join(m2.encoded_data_set))
                              EXCEPT !.encoded_data_set = <<>>],
                       ret |-> "True"]
        ELSE [m |-> m1, ret |-> "DIMSEProcessingError"]

\* The same loop body in the legacy copy: the command buffer is a string
\* that is never reset, and data fragments are added to data_set itself.
LegacyDecodePdv(m, value_item) ==
    LET m1 == [m EXCEPT !.id_ = value_item.context_id]
        marker == Marker(value_item)
    IN  IF marker \in {1, 3}
        THEN LET m2 == [m1 EXCEPT !.encoded_command_set =
                                      @ \o Payload(value_item)]
                 d == dsutils_decode(m2.encoded_command_set)
             IN  IF marker # 3 THEN [m |-> m2, ret |-> "continue"]
                 ELSE IF ~d.ok THEN [m |-> m2, ret |-> "DecodeError"]
                 ELSE Narrow([m2 EXCEPT !.command_set = d.ds])
        ELSE IF marker \in {0, 2}
        THEN IF m1.data_set = None
             THEN [m |-> m1, ret |-> "TypeError"]
             ELSE [m |-> [m1 EXCEPT !.data_set = @ \o Payload(value_item)],
                   ret |-> IF marker = 2 THEN "True" ELSE "continue"]
        ELSE [m |-> m1, ret |-> "RuntimeError"]

DecodePdvOf(im, m, value_item) ==
    IF im = "netdicom2" THEN decode_pdv(m, value_item)
    ELSE LegacyDecodePdv(m, value_item)

\* A walk that goes on past the PDV that completes the message and reports
\* complete at the end of the PDU.
RECURSIVE DecodeItemsPastCompletion(_, _, _, _)
DecodeItemsPastCompletion(im, m, items, log) ==
    IF items = <<>>
    THEN [m |-> m,
          ret |-> IF \E k \in 1..Len(log) : log[k].ret = "True"
                  THEN "True" ELSE "False",
          log |-> log]
    ELSE LET r == DecodePdvOf(im, m, Head(items))
             entry == [header |-> Head(items).data_value[1],
                       marker |-> Marker(Head(items)),
                       payload |-> Payload(Head(items)),
                       before |-> m, after |-> r.m, ret |-> r.ret]
         IN  IF r.ret \in {"continue", "True"}
             THEN DecodeItemsPastCompletion(im, r.m, Tail(items),
                                            Append(log, entry))
             ELSE [m |-> r.m, ret |-> r.ret, log |-> Append(log, entry)]

\* decode's walk over the PDVs of one PDU; log records, for every PDV it
\* examines, the PDV, the message before and after, and the outcome.
RECURSIVE DecodeItems(_, _, _, _)
DecodeItems(im, m, items, log) ==
    IF items = <<>> THEN [m |-> m, ret |-> "False", log |-> log]
    ELSE LET r == DecodePdvOf(im, m, Head(items))
             entry == [header |-> Head(items).data_value[1],
                       marker |-> Marker(Head(items)),
                       payload |-> Payload(Head(items)),
                       before |-> m, after |-> r.m, ret |-> r.ret]
         IN  IF r.ret = "continue"
             THEN DecodeItems(im, r.m, Tail(items), Append(log, entry))
             ELSE [m |-> r.m, ret |-> r.ret, log |-> Append(log, entry)]

\* DIMSEMessage.decode of either copy.
decode(im, m, p_data) ==
    IF p_data.kind # PDataKind(im)
    THEN [m |-> m, ret |-> "False", log |-> <<>>]
    ELSE DecodeItems(im, m, p_data.data_value_items, <<>>)

(***************************************************************************)
(* The inputs the operations are run on.                                   *)
(***************************************************************************)
Impls == {"netdicom2", "legacy"}

MinEncodePdu == 16   \* the smallest max_pdu_length encode is run with
LargePdu == 4096     \* a max_pdu_length every command set fits in

RECURSIVE ByteStrings(_)
ByteStrings(n) ==
    IF n = 0 THEN {<<>>}
    ELSE ByteStrings(n - 1) \cup
         {Append(b, x) : b \in {c \in ByteStrings(n - 1) : Len(c) = n - 1},
                         x \in {1, 2}}

DataOfLen(n) == [i \in 1..n |-> (i * 37) % 256]

UIDs == {<<49, 46, 50>>, <<49, 46>>}              \* "1.2", "1."
MessageIDs == {<<7>>, <<258>>}
Statuses == {<<0>>, <<65280>>}                    \* Success, Pending (0xFF00)
Priorities == {<<PRIORITY_MEDIUM>>, <<PRIORITY_LOW>>}
AETitles == {<<>>, <<65>>}                        \* "", "A"
OriginatorIDs == {None, <<0>>, <<5>>}
DataSets == {None} \cup {DataOfLen(n) : n \in 0..MaxDataLen}

RequestParams(kind) ==
    [DefaultParams(kind) EXCEPT !.affected_sop_class_uid = <<49, 46, 50>>,
                                !.message_id = <<7>>,
                                !.priority = <<PRIORITY_MEDIUM>>]

ResponseParams(kind) ==
    [DefaultParams(kind) EXCEPT !.affected_sop_class_uid = <<49, 46, 50>>,
                                !.message_id_being_responded_to = <<7>>,
                                !.status = <<0>>]

\* Which fields of a parameter object given to from_params hold elements:
\* none (plain values, as a service user fills them in), the first field
\* read through .value only, or every field read through .value (as when the
\* object comes from the to_params of the request).
ElementsGiven(cls) ==
    {{}, {ValueReads(cls)[1]},
     {ValueReads(cls)[i] : i \in 1..Len(ValueReads(cls))}}

\* The parameter objects given to from_params of each class.
ParamsOf(cls) ==
    CASE cls = "CEchoRQMessage" ->
            {[RequestParams("CEchoServiceParameters") EXCEPT
                 !.affected_sop_class_uid = u, !.message_id = i, !.priority = None]
             : u \in UIDs, i \in MessageIDs}
      [] cls = "CEchoRSPMessage" ->
            {[ResponseParams("CEchoServiceParameters") EXCEPT
                 !.affected_sop_class_uid = u, !.status = st]
             : u \in UIDs \cup {<<>>}, st \in Statuses}
      [] cls = "CStoreRQMessage" ->
            {[RequestParams("CStoreServiceParameters") EXCEPT
                 !.priority = pr, !.affected_sop_instance_uid = <<49, 46, 51>>,
                 !.move_originator_aet = a, !.move_originator_message_id = o,
                 !.data_set = d]
             : pr \in Priorities, a \in AETitles, o \in OriginatorIDs,
               d \in DataSets}
      [] cls = "CStoreRSPMessage" ->
            {[ResponseParams("CStoreServiceParameters") EXCEPT
                 !.affected_sop_class_uid = u, !.status = st,
                 !.affected_sop_instance_uid = <<49, 46, 51>>,
                 !.elements = e]
             : u \in UIDs, st \in Statuses, e \in ElementsGiven(cls)}
      [] cls \in {"CFindRQMessage", "CGetRQMessage"} ->
            {[RequestParams(ServiceParameters(cls)) EXCEPT
                 !.priority = pr, !.identifier = d]
             : pr \in Priorities, d \in DataSets}
      [] cls = "CFindRSPMessage" ->
            {[ResponseParams("CFindServiceParameters") EXCEPT
                 !.status = st, !.identifier = d, !.elements = e]
             : st \in Statuses, d \in DataSets, e \in ElementsGiven(cls)}
      [] cls \in {"CGetRSPMessage", "CMoveRSPMessage"} ->
            {[ResponseParams(ServiceParameters(cls)) EXCEPT
                 !.status = st, !.num_of_remaining_sub_ops = r,
                 !.num_of_completed_sub_ops = <<1>>,
                 !.num_of_failed_sub_ops = <<0>>,
                 !.num_of_warning_sub_ops = <<0>>]
             : st \in Statuses, r \in {<<0>>, <<3>>}}
      [] cls = "CMoveRQMessage" ->
            {[RequestParams("CMoveServiceParameters") EXCEPT
                 !.move_destination = a, !.identifier = d]
             : a \in {<<65>>, <<65, 66>>}, d \in DataSets}
      [] OTHER ->
            {[DefaultParams("CFindServiceParameters") EXCEPT
                 !.message_id_being_responded_to = i]
             : i \in MessageIDs}

\* Encoded command sets a peer sends: one announcing no data set, cut in
\* two pieces, and one announcing a data set.
PeerCommandNoData ==
    dsutils_encode(from_params(NewMessage("CEchoRQMessage"),
                               RequestParams("CEchoServiceParameters")).command_set)
PeerCommandData ==
    dsutils_encode(from_params(NewMessage("CFindRQMessage"),
                               [RequestParams("CFindServiceParameters")
                                EXCEPT !.identifier = <<8>>]).command_set)
PeerCut == 20

\* A command set whose CommandField, 0x0140 (N-CREATE-RQ), is no opcode of
\* the catalog.
PeerCommandUnknown ==
    dsutils_encode((CommandField :> <<320>>) @@
                   from_params(NewMessage("CEchoRQMessage"),
                               RequestParams("CEchoServiceParameters")).command_set)
PeerCommandPieces ==
    {Take(PeerCommandNoData, PeerCut), Drop(PeerCommandNoData, PeerCut),
     PeerCommandData}

\* The PDVs a peer sends: command and data fragments, last or not, and a
\* PDV with the illegal control header 0x05.
PdvPool ==
    {[context_id |-> 1, data_value |-> <<h>> \o f]
        : h \in {1, 3}, f \in PeerCommandPieces}
    \cup {[context_id |-> 1, data_value |-> <<h, 8>>] : h \in {0, 2, 5}}
    \cup {[context_id |-> 1, data_value |-> <<3>> \o PeerCommandUnknown]}

\* What is not a P-DATA at all.
NotPData == [kind |-> "AReleaseRqPDU", data_value_items |-> <<>>]

RECURSIVE PdvCount(_)
PdvCount(pdus) ==
    IF pdus = <<>> THEN 0
    ELSE (IF Head(pdus).data_value_items = <<>> THEN 1
          ELSE Len(Head(pdus).data_value_items)) + PdvCount(Tail(pdus))

\* The message a receiver starts from: DIMSEMessage().
FreshReceiver(im) ==
    IF im = "netdicom2" THEN NewMessage("DIMSEMessage")
    ELSE LegacyNewMessage("DIMSEMessage")

(***************************************************************************)
(* The state machine.  From "start" one of three scenarios runs:           *)
(*   a stand-alone call of fragment, iterated one loop pass per step;      *)
(*   a sender: from_params, then to_params, or encode followed by the      *)
(*     receiver's decode of each PDU in order;                             *)
(*   a peer that hands arbitrary PDUs to the receiver's decode.            *)
(* decode is not called again on a message once it returned True or raised.*)
(***************************************************************************)
NoTick == [state |-> "none", recv |-> "none", at |-> "none", put |-> "none",
           got |-> "none"]

\* No call of receive() has just returned.
NoReturn == [called |-> FALSE, value |-> [kind |-> "None", result |-> None]]

\* No DULServiceProvider has been constructed.
NoProvider ==
    /\ is_killed = FALSE
    /\ current_state = "Sta1"
    /\ timer = "stopped"
    /\ remote_client_socket = "None"
    /\ local_server_socket = "None"
    /\ event = <<>>
    /\ from_service_user = <<>>
    /\ to_service_user = <<>>
    /\ pdu = [cls |-> "None", data |-> <<>>]
    /\ primitive = [kind |-> "None", result |-> None]
    /\ loop = "none"
    /\ raw_pdu = <<>>
    /\ tick = NoTick
    /\ thrown = "none"
    /\ peer = "absent"
    /\ net_in = <<>>
    /\ net_out = <<>>
    /\ stop_ret = "none"
    /\ sends_left = 0
    /\ peer_left = 0
    /\ mode = "none"
    /\ first_evt = "none"
    /\ receive_ret = NoReturn
    /\ backlog = 0
    /\ connects_left = 0
    /\ client_sockets = IF remote_client_socket = "open" THEN 1 ELSE 0
    /\ stop_at = "idle"
    /\ so_error = FALSE

Init ==
    /\ pc = "start"
    /\ impl \in Impls
    /\ f_max = 0
    /\ f_in = <<>>
    /\ f_s = <<>>
    /\ f_fragments = <<>>
    /\ params = DefaultParams("none")
    /\ msg = FreshReceiver(impl)
    /\ out_params = DefaultParams("none")
    /\ enc_ctx = 0
    /\ enc_max = 0
    /\ p_datas = <<>>
    /\ wire = <<>>
    /\ rx = FreshReceiver(impl)
    /\ rx_ret = "none"
    /\ rx_log = <<>>
    /\ NoProvider

\* fragment is entered: s = str_, fragments = [].
FragmentCall(max_pdu_length, str_) ==
    /\ pc = "start"
    /\ pc' = "fragment"
    /\ f_max' = max_pdu_length
    /\ f_in' = str_
    /\ f_s' = str_
    /\ f_fragments' = <<>>
    /\ UNCHANGED <<impl, params, msg, out_params, enc_ctx, enc_max, p_datas,
                   wire, rx, rx_ret, rx_log>>
    /\ UNCHANGED dul_vars

\* One pass of fragment's while loop.
FragmentStep ==
    /\ pc = "fragment"
    /\ LET r == FragmentIter(maxsize(f_max), f_s, f_fragments)
       IN  /\ f_s' = r.s
           /\ f_fragments' = r.fragments
           /\ pc' = IF r.done THEN "fragment_done" ELSE "fragment"
    /\ UNCHANGED <<impl, f_max, f_in, params, msg, out_params, enc_ctx,
                   enc_max, p_datas, wire, rx, rx_ret, rx_log>>
    /\ UNCHANGED dul_vars

\* A message of class cls is constructed and from_params(p) is called on it;
\* pc is "raised" when the call ends with an exception.
FromParams(cls, p) ==
    /\ pc = "start"
    /\ pc' = IF from_params_raises(cls, p) = "none" THEN "built" ELSE "raised"
    /\ params' = p
    /\ msg' = IF impl = "netdicom2" THEN from_params(NewMessage(cls), p)
              ELSE LegacyFromParams(LegacyNewMessage(cls), p)
    /\ UNCHANGED <<impl, f_max, f_in, f_s, f_fragments, out_params, enc_ctx,
                   enc_max, p_datas, wire, rx, rx_ret, rx_log>>
    /\ UNCHANGED dul_vars

\* to_params is called on the message built (netdicom2).
ToParams ==
    /\ pc = "built"
    /\ impl = "netdicom2"
    /\ pc' = "returned"
    /\ out_params' = to_params(msg)
    /\ UNCHANGED <<impl, f_max, f_in, f_s, f_fragments, params, msg, enc_ctx,
                   enc_max, p_datas, wire, rx, rx_ret, rx_log>>
    /\ UNCHANGED dul_vars

\* to_params is called on the message the receiver's decode reported
\* complete (netdicom2).
RxToParams ==
    /\ pc \in {"encoded", "receiving"}
    /\ impl = "netdicom2"
    /\ rx_ret = "True"
    /\ pc' = "extracted"
    /\ out_params' = to_params(rx)
    /\ UNCHANGED <<impl, f_max, f_in, f_s, f_fragments, params, msg, enc_ctx,
                   enc_max, p_datas, wire, rx, rx_ret, rx_log>>
    /\ UNCHANGED dul_vars

\* encode(id_, max_pdu_length) is called on the message built; the PDUs it
\* returns are what a fresh receiver will be fed.
Encode(id_, max_pdu_length) ==
    /\ pc = "built"
    /\ pc' = "encoded"
    /\ enc_ctx' = id_
    /\ enc_max' = max_pdu_length
    /\ msg' = [msg EXCEPT !.id_ = <<id_>>]
    /\ p_datas' = IF impl = "netdicom2" THEN encode(msg, id_, max_pdu_length)
                  ELSE LegacyEncode(msg, id_, max_pdu_length)
    /\ wire' = p_datas'
    /\ UNCHANGED <<impl, f_max, f_in, f_s, f_fragments, params, out_params,
                   rx, rx_ret, rx_log>>
    /\ UNCHANGED dul_vars

\* A peer sends one PDU of its own making.
PeerSends(p_data) ==
    /\ pc \in {"start", "receiving"}
    /\ wire = <<>>
    /\ rx_ret \in {"none", "False"}
    /\ PdvCount(Append(p_datas, p_data)) <= MaxPdvs
    /\ pc' = "receiving"
    /\ p_datas' = Append(p_datas, p_data)
    /\ wire' = <<p_data>>
    /\ UNCHANGED <<impl, f_max, f_in, f_s, f_fragments, params, msg,
                   out_params, enc_ctx, enc_max, rx, rx_ret, rx_log>>
    /\ UNCHANGED dul_vars

\* The receiver calls decode on the next PDU.
Decode ==
    /\ pc \in {"encoded", "receiving"}
    /\ wire # <<>>
    /\ rx_ret \in {"none", "False"}
    /\ LET r == decode(impl, rx, Head(wire))
       IN  /\ rx' = r.m
           /\ rx_ret' = r.ret
           /\ rx_log' = r.log
    /\ wire' = Tail(wire)
    /\ UNCHANGED <<pc, impl, f_max, f_in, f_s, f_fragments, params, msg,
                   out_params, enc_ctx, enc_max, p_datas>>
    /\ UNCHANGED dul_vars

\* message.data_set = value on a message already built (the data_set
\* property of netdicom2).
AssignDataSet(value) ==
    /\ pc \in {"built", "reassigned"}
    /\ impl = "netdicom2"
    /\ pc' = "reassigned"
    /\ msg' = set_data_set(msg, value)
    /\ UNCHANGED <<impl, f_max, f_in, f_s, f_fragments, params, out_params,
                   enc_ctx, enc_max, p_datas, wire, rx, rx_ret, rx_log>>
    /\ UNCHANGED dul_vars

\* from_params(p) is called once more on the message already built.
FromParamsAgain(p) ==
    /\ pc \in {"built", "reassigned"}
    /\ impl = "netdicom2"
    /\ pc' = IF from_params_raises(msg.cls, p) = "none" THEN "reassigned"
             ELSE "raised"
    /\ params' = p
    /\ msg' = from_params(msg, p)
    /\ UNCHANGED <<impl, f_max, f_in, f_s, f_fragments, out_params, enc_ctx,
                   enc_max, p_datas, wire, rx, rx_ret, rx_log>>
    /\ UNCHANGED dul_vars

\* The classes derived from DIMSERequestMessage and those with the
\* decorators status_mixin and priority_mixin; every other class, C-CANCEL-RQ
\* included, derives from DIMSEResponseMessage.
RequestClasses ==
    {"CEchoRQMessage", "CStoreRQMessage", "CFindRQMessage", "CGetRQMessage",
     "CMoveRQMessage"}
StatusClasses ==
    {"CEchoRSPMessage", "CStoreRSPMessage", "CFindRSPMessage",
     "CGetRSPMessage", "CMoveRSPMessage"}
PriorityClasses ==
    {"CStoreRQMessage", "CFindRQMessage", "CGetRQMessage", "CMoveRQMessage"}

\* The properties made by dimse_property that an object of the class has,
\* its own and the inherited ones.
AccessorsOf(cls) ==
    {"affected_sop_class_uid"}
    \cup (IF cls \in RequestClasses THEN {"message_id"}
          ELSE {"message_id_being_responded_to"})
    \cup (IF cls \in StatusClasses THEN {"status"} ELSE {})
    \cup (IF cls \in PriorityClasses THEN {"priority"} ELSE {})
    \cup (CASE cls = "CStoreRQMessage" ->
                  {"affected_sop_instance_uid", "move_originator_aet",
                   "move_originator_message_id"}
            [] cls = "CStoreRSPMessage" -> {"affected_sop_instance_uid"}
            [] cls \in {"CGetRSPMessage", "CMoveRSPMessage"} ->
                  {"num_of_remaining_sub_ops", "num_of_completed_sub_ops",
                   "num_of_failed_sub_ops", "num_of_warning_sub_ops"}
            [] cls = "CMoveRQMessage" -> {"move_destination"}
            [] OTHER -> {})

\* The tag each property is bound to; move_destination of CMoveRQMessage is
\* bound to (0000,0700) in the class body, the tag of priority.
AccessorTag(name) ==
    CASE name = "affected_sop_class_uid" -> AffectedSOPClassUID
      [] name = "message_id" -> MessageID
      [] name = "message_id_being_responded_to" -> MessageIDBeingRespondedTo
      [] name = "status" -> Status
      [] name = "priority" -> Priority              \* (0x0000, 0x0700)
      [] name = "move_destination" -> Priority      \* (0x0000, 0x0700)
      [] name = "affected_sop_instance_uid" -> AffectedSOPInstanceUID
      [] name = "move_originator_aet" -> MoveOriginatorApplicationEntityTitle
      [] name = "move_originator_message_id" -> MoveOriginatorMessageID
      [] name = "num_of_remaining_sub_ops" -> NumberOfRemainingSubOperations
      [] name = "num_of_completed_sub_ops" -> NumberOfCompletedSubOperations
      [] name = "num_of_failed_sub_ops" -> NumberOfFailedSubOperations
      [] name = "num_of_warning_sub_ops" -> NumberOfWarningSubOperations

\* The getter and the setter dimse_property(tag) makes.  The setter is
\* `self.command_set[tag].value = value`: it raises KeyError and writes
\* nothing when the command set has no element of that tag.
dimse_property_get(m, tag) == Get(m.command_set, tag)

dimse_property_raises(m, tag) ==
    IF tag \in DOMAIN m.command_set THEN "none" ELSE "KeyError"

dimse_property_set(m, tag, value) ==
    IF tag \in DOMAIN m.command_set
    THEN [m EXCEPT !.command_set[tag] = value]
    ELSE m

Accessors ==
    {"affected_sop_class_uid", "message_id", "message_id_being_responded_to",
     "status", "priority", "move_destination", "affected_sop_instance_uid",
     "move_originator_aet", "move_originator_message_id",
     "num_of_remaining_sub_ops", "num_of_completed_sub_ops",
     "num_of_failed_sub_ops", "num_of_warning_sub_ops"}

\* The values written through each property.
AccessorValues(name) ==
    CASE name = "priority" -> Priorities
      [] name = "move_destination" -> {<<65>>, <<66, 67>>}
      [] name = "affected_sop_class_uid" -> {<<49, 46>>}
      [] name = "affected_sop_instance_uid" -> {<<49, 46, 52>>}
      [] name \in {"message_id", "message_id_being_responded_to"} ->
            {<<258>>}
      [] name = "status" -> {<<65280>>}
      [] name = "move_originator_aet" -> {<<66>>}
      [] name = "move_originator_message_id" -> {<<5>>}
      [] OTHER -> {<<2>>}

\* message.<name> = value on a message already built: the element of the
\* property's tag gets the value, the group length is left as it is.
WriteAccessor(name, value) ==
    /\ pc \in {"built", "written"}
    /\ impl = "netdicom2"
    /\ name \in AccessorsOf(msg.cls)
    /\ pc' = IF dimse_property_raises(msg, AccessorTag(name)) = "none"
             THEN "written" ELSE "raised"
    /\ msg' = dimse_property_set(msg, AccessorTag(name), value)
    /\ UNCHANGED <<impl, f_max, f_in, f_s, f_fragments, params, out_params,
                   enc_ctx, enc_max, p_datas, wire, rx, rx_ret, rx_log>>
    /\ UNCHANGED dul_vars

\* message.set_length() on a message already built.
SetLength ==
    /\ pc \in {"built", "written"}
    /\ impl = "netdicom2"
    /\ pc' = "written"
    /\ msg' = set_length(msg)
    /\ UNCHANGED <<impl, f_max, f_in, f_s, f_fragments, params, out_params,
                   enc_ctx, enc_max, p_datas, wire, rx, rx_ret, rx_log>>
    /\ UNCHANGED dul_vars

Next ==
    \/ \E m \in (PduOverhead + 1)..MaxFragPdu, b \in ByteStrings(MaxFragLen) :
          FragmentCall(m, b)
    \/ FragmentStep
    \/ \E cls \in Variants : \E p \in ParamsOf(cls) : FromParams(cls, p)
    \/ ToParams
    \/ \E id_ \in {1, 3},
          m \in MinEncodePdu..(MinEncodePdu + MaxPduSpan) \cup {LargePdu} :
          Encode(id_, m)
    \/ RxToParams
    \/ \E n \in 1..(MaxPdvs - PdvCount(p_datas)) :
          \E items \in [1..n -> PdvPool] :
          PeerSends([kind |-> PDataKind(impl), data_value_items |-> items])
    \/ PeerSends(NotPData)
    \/ Decode

Spec == Init /\ [][Next]_vars

\* A message that is built and then written to again: its data set is
\* assigned, from_params is called once more, a property is written or
\* set_length is called.
ReassignNext ==
    \/ \E cls \in Variants : \E p \in ParamsOf(cls) : FromParams(cls, p)
    \/ \E value \in DataSets : AssignDataSet(value)
    \/ \E p \in ParamsOf(msg.cls) : FromParamsAgain(p)
    \/ \E name \in Accessors : \E value \in AccessorValues(name) :
          WriteAccessor(name, value)
    \/ SetLength

ReassignSpec == Init /\ [][ReassignNext]_vars

\* The stand-alone runs of fragment alone; a loop that has been entered
\* keeps executing its passes.
FragmentNext ==
    \/ \E m \in (PduOverhead + 1)..MaxFragPdu, b \in ByteStrings(MaxFragLen) :
          FragmentCall(m, b)
    \/ FragmentStep

FragmentSpec == Init /\ [][FragmentNext]_vars /\ WF_vars(FragmentStep)

(***************************************************************************)
(* The DUL service provider (dulprovider.py).                              *)
(*                                                                         *)
(* A primitive is a record [kind, result]; a PDU object is a record        *)
(* [cls, data]; events are the strings "Evt1" .. "Evt19".  The modules     *)
(* fsm, timer, pdu and dulparameters are not part of the sources at hand:  *)
(* the state machine is the table of DICOM PS3.8 with AA-8 for every pair  *)
(* the table leaves open, the timer is stopped, running or expired, and a  *)
(* PDU's decode keeps its bytes.                                           *)
(***************************************************************************)
MaxSends == 1        \* calls of send() by the service user in one run
MaxPeerPdus == 1     \* PDUs written by the peer in one run
MaxRequestorPdus == 2  \* the same when the provider opens the connection
MaxConnects == 1     \* connections peers open to the listening port
MaxListenConnects == 2  \* the same in the runs of a listening provider
MaxListenPdus == 1   \* PDUs written by the peers of a listening provider
PduBodyLen == 1      \* length of the body of a PDU the peer writes

PduHeaderLen == 6          \* type(1) | reserved(1) | length(4)
UnknownPduType == 10       \* 0x0A, a type byte outside 0x01 .. 0x07

Primitive(kind, result) == [kind |-> kind, result |-> result]

\* The primitives a service user hands to send(); the last one is an object
\* of none of the four parameter classes.
UserPrimitives ==
    {Primitive("AAssociate", None), Primitive("AAssociate", <<0>>),
     Primitive("AAssociate", <<1>>), Primitive("ARelease", None),
     Primitive("ARelease", <<0>>), Primitive("AAbort", None),
     Primitive("PData", None), Primitive("Other", None)}

APAbort == Primitive("APAbort", None)

\* The value None where a primitive or a PDU object is expected.
NoPrimitive == Primitive("None", None)
NoPdu == [cls |-> "None", data |-> <<>>]

\* primitive_to_event(primitive); "InvalidPrimitive" stands for the raise.
primitive_to_event(p) ==
    CASE p.kind = "AAssociate" ->
             IF p.result = None THEN "Evt1"
             ELSE IF p.result = <<0>> THEN "Evt7" ELSE "Evt8"
      [] p.kind = "ARelease" ->
             IF p.result = None THEN "Evt11" ELSE "Evt14"
      [] p.kind = "AAbort" -> "Evt15"
      [] p.kind = "PData" -> "Evt9"
      [] OTHER -> "InvalidPrimitive"

PduClass(pdu_type) ==
    CASE pdu_type = 1 -> "AAssociateRqPDU"
      [] pdu_type = 2 -> "AAssociateAcPDU"
      [] pdu_type = 3 -> "AAssociateRjPDU"
      [] pdu_type = 4 -> "PDataTfPDU"
      [] pdu_type = 5 -> "AReleaseRqPDU"
      [] pdu_type = 6 -> "AReleaseRpPDU"
      [] pdu_type = 7 -> "AAbortPDU"
      [] OTHER -> "None"

\* socket_to_pdu(data): the PDU object for the bytes read, None for a type
\* byte that is not 0x01 .. 0x07.
socket_to_pdu(data) ==
    IF PduClass(data[1]) = "None" THEN NoPdu
    ELSE [cls |-> PduClass(data[1]), data |-> data]

\* pdu_to_event(pdu_); in the else branch logger.log is called with the
\* message alone, which raises TypeError before 'Evt19' is returned.
pdu_to_event(pdu_) ==
    IF pdu_ = NoPdu THEN "TypeError"
    ELSE CASE pdu_.cls = "AAssociateRqPDU" -> "Evt6"
           [] pdu_.cls = "AAssociateAcPDU" -> "Evt3"
           [] pdu_.cls = "AAssociateRjPDU" -> "Evt4"
           [] pdu_.cls = "PDataTfPDU" -> "Evt10"
           [] pdu_.cls = "AReleaseRqPDU" -> "Evt12"
           [] pdu_.cls = "AReleaseRpPDU" -> "Evt13"
           [] pdu_.cls = "AAbortPDU" -> "Evt16"

\* pdu.to_params(): the primitive a PDU object stands for.
PduToParams(pdu_) ==
    CASE pdu_.cls = "AAssociateRqPDU" -> Primitive("AAssociate", None)
      [] pdu_.cls = "AAssociateAcPDU" -> Primitive("AAssociate", <<0>>)
      [] pdu_.cls = "AAssociateRjPDU" -> Primitive("AAssociate", <<1>>)
      [] pdu_.cls = "PDataTfPDU" -> Primitive("PData", None)
      [] pdu_.cls = "AReleaseRqPDU" -> Primitive("ARelease", None)
      [] pdu_.cls = "AReleaseRpPDU" -> Primitive("ARelease", <<0>>)
      [] pdu_.cls = "AAbortPDU" -> Primitive("AAbort", None)

\* struct.unpack('>L', length)
UnpackL(b) == b[1] * 16777216 + b[2] * 65536 + b[3] * 256 + b[4]

\* The bytes of a PDU of the given type as a peer writes them.
PduBytes(pdu_type) ==
    <<pdu_type, 0, 0, 0, 0, PduBodyLen>> \o [i \in 1..PduBodyLen |-> 0]

PeerPduTypes == {1, 2, 3, 4, 5, 6, 7, UnknownPduType}

\* Where a peer stops in the middle of a PDU: after the type byte, inside
\* the header, before the body.
CutPoints == {1, 3, PduHeaderLen}

(***************************************************************************)
(* The state machine.                                                      *)
(***************************************************************************)
States ==
    {"Sta1", "Sta2", "Sta3", "Sta4", "Sta5", "Sta6", "Sta7", "Sta8", "Sta9",
     "Sta10", "Sta11", "Sta12", "Sta13"}
Events ==
    {"Evt1", "Evt2", "Evt3", "Evt4", "Evt5", "Evt6", "Evt7", "Evt8", "Evt9",
     "Evt10", "Evt11", "Evt12", "Evt13", "Evt14", "Evt15", "Evt16", "Evt17",
     "Evt18", "Evt19"}
Sta5to12 ==
    {"Sta5", "Sta6", "Sta7", "Sta8", "Sta9", "Sta10", "Sta11", "Sta12"}
ReceivedPduEvents == {"Evt3", "Evt4", "Evt6", "Evt10", "Evt12", "Evt13"}

\* The action of the table for (state, event), "none" where the table has
\* no entry.
TableAction(st, evt) ==
    CASE evt = "Evt1" /\ st = "Sta1" -> "AE-1"
      [] evt = "Evt2" /\ st = "Sta4" -> "AE-2"
      [] evt = "Evt5" /\ st = "Sta1" -> "AE-5"
      [] evt = "Evt3" /\ st = "Sta5" -> "AE-3"
      [] evt = "Evt4" /\ st = "Sta5" -> "AE-4"
      [] evt = "Evt6" /\ st = "Sta2" -> "AE-6"
      [] evt = "Evt7" /\ st = "Sta3" -> "AE-7"
      [] evt = "Evt8" /\ st = "Sta3" -> "AE-8"
      [] evt = "Evt9" /\ st = "Sta6" -> "DT-1"
      [] evt = "Evt9" /\ st = "Sta8" -> "AR-7"
      [] evt = "Evt10" /\ st = "Sta6" -> "DT-2"
      [] evt = "Evt10" /\ st = "Sta7" -> "AR-6"
      [] evt = "Evt11" /\ st = "Sta6" -> "AR-1"
      [] evt = "Evt12" /\ st = "Sta6" -> "AR-2"
      [] evt = "Evt12" /\ st = "Sta7" -> "AR-8"
      [] evt = "Evt13" /\ st \in {"Sta7", "Sta11"} -> "AR-3"
      [] evt = "Evt13" /\ st = "Sta10" -> "AR-10"
      [] evt = "Evt14" /\ st \in {"Sta8", "Sta12"} -> "AR-4"
      [] evt = "Evt14" /\ st = "Sta9" -> "AR-9"
      [] evt = "Evt15" /\ st = "Sta4" -> "AA-2"
      [] evt = "Evt15" /\ st \in Sta5to12 \cup {"Sta3"} -> "AA-1"
      [] evt = "Evt16" /\ st \in {"Sta2", "Sta13"} -> "AA-2"
      [] evt = "Evt16" /\ st \in Sta5to12 \cup {"Sta3"} -> "AA-3"
      [] evt = "Evt17" /\ st = "Sta2" -> "AA-5"
      [] evt = "Evt17" /\ st \in Sta5to12 \cup {"Sta3", "Sta4"} -> "AA-4"
      [] evt = "Evt17" /\ st = "Sta13" -> "AR-5"
      [] evt = "Evt18" /\ st \in {"Sta2", "Sta13"} -> "AA-2"
      [] evt = "Evt19" /\ st = "Sta2" -> "AA-1"
      [] evt \in {"Evt6", "Evt19"} /\ st = "Sta13" -> "AA-7"
      [] evt \in ReceivedPduEvents /\ evt # "Evt6" /\ st = "Sta13" -> "AA-6"
      [] evt \in ReceivedPduEvents /\ evt # "Evt6" /\ st = "Sta2" -> "AA-1"
      [] evt \in ReceivedPduEvents \cup {"Evt19"}
            /\ st \in Sta5to12 \cup {"Sta3"} -> "AA-8"
      [] OTHER -> "none"

\* The action dispatch runs: the table's, AA-8 for a pair without entry.
FsmAction(st, evt) ==
    IF TableAction(st, evt) = "none" THEN "AA-8" ELSE TableAction(st, evt)

\* The type of the PDU an action writes to the transport, 0 for none.
SendsPdu(act) ==
    CASE act = "AE-2" -> 1
      [] act = "AE-7" -> 2
      [] act = "AE-8" -> 3
      [] act \in {"DT-1", "AR-7"} -> 4
      [] act = "AR-1" -> 5
      [] act \in {"AR-4", "AR-9"} -> 6
      [] act \in {"AA-1", "AA-7", "AA-8"} -> 7
      [] OTHER -> 0

\* The action hands the provider's current primitive to the service user.
IndicatesPrimitive(act) ==
    act \in {"AE-3", "AE-4", "AE-6", "DT-2", "AR-2", "AR-3", "AR-6", "AR-8",
             "AR-10", "AA-3"}

\* The action hands an A-P-ABORT to the service user.
IndicatesAPAbort(act) == act \in {"AA-4", "AA-8"}

StartsTimer(act) == act \in {"AE-5", "AE-8", "AR-4", "AA-1", "AA-8"}
StopsTimer(act) == act \in {"AE-6", "AR-5", "AA-2", "AA-5"}
ClosesTransport(act) == act \in {"AE-4", "AR-3", "AA-2", "AA-3"}
OpensTransport(act) == act = "AE-1"

\* The state an action leaves the machine in; requestor tells the side of
\* a release collision.
NextState(st, act, requestor) ==
    CASE act = "AE-1" -> "Sta4"
      [] act = "AE-2" -> "Sta5"
      [] act \in {"AE-3", "AE-7", "DT-1", "DT-2"} -> "Sta6"
      [] act = "AE-5" -> "Sta2"
      [] act = "AE-6" -> "Sta3"
      [] act \in {"AR-1", "AR-6"} -> "Sta7"
      [] act \in {"AR-2", "AR-7"} -> "Sta8"
      [] act = "AR-8" -> IF requestor THEN "Sta9" ELSE "Sta10"
      [] act = "AR-9" -> "Sta11"
      [] act = "AR-10" -> "Sta12"
      [] act \in {"AE-4", "AR-3", "AR-5", "AA-2", "AA-3", "AA-4", "AA-5"} ->
             "Sta1"
      [] act \in {"AE-8", "AR-4", "AA-1", "AA-6", "AA-7", "AA-8"} -> "Sta13"

Contains(seq, x) == \E i \in 1..Len(seq) : seq[i] = x

(***************************************************************************)
(* The provider's thread and its environment.                              *)
(***************************************************************************)
\* No DIMSE scenario runs beside the provider.
DimseIdle ==
    /\ pc = "start"
    /\ impl = "netdicom2"
    /\ f_max = 0
    /\ f_in = <<>>
    /\ f_s = <<>>
    /\ f_fragments = <<>>
    /\ params = DefaultParams("none")
    /\ msg = FreshReceiver("netdicom2")
    /\ out_params = DefaultParams("none")
    /\ enc_ctx = 0
    /\ enc_max = 0
    /\ p_datas = <<>>
    /\ wire = <<>>
    /\ rx = FreshReceiver("netdicom2")
    /\ rx_ret = "none"
    /\ rx_log = <<>>

\* The arguments of DULServiceProvider(socket_, port): a connected socket,
\* a port to listen on, neither or both.
Modes == {"socket", "port", "neither", "both"}

\* An __init__ that puts no event.
NoInitialEvents(m) == <<>>

\* __init__: what the event queue holds when the thread is started.
InitialEvents(m) == IF m = "socket" THEN <<"Evt5">> ELSE <<>>

\* DULServiceProvider(socket_, port) has returned or raised: with both
\* arguments it raises RuntimeError before the thread exists, otherwise the
\* thread is started; connections peers may open to the port: connects,
\* PDUs they may write: pdus, MaxRequestorPdus to a provider that opens the
\* connection itself.
Constructed(connects, pdus) ==
    /\ DimseIdle
    /\ mode \in Modes
    /\ event = IF mode = "both" THEN <<>> ELSE InitialEvents(mode)
    /\ remote_client_socket = IF mode = "socket" THEN "open" ELSE "None"
    /\ local_server_socket = IF mode = "port" THEN "listening" ELSE "None"
    /\ peer = IF mode = "socket" THEN "connected" ELSE "absent"
    /\ loop = IF mode = "both" THEN "none" ELSE "top"
    /\ thrown = IF mode = "both" THEN "RuntimeError" ELSE "none"
    /\ is_killed = FALSE
    /\ current_state = "Sta1"
    /\ timer = "stopped"
    /\ from_service_user = <<>>
    /\ to_service_user = <<>>
    /\ pdu = NoPdu
    /\ primitive = NoPrimitive
    /\ raw_pdu = <<>>
    /\ tick = NoTick
    /\ net_in = <<>>
    /\ net_out = <<>>
    /\ stop_ret = "none"
    /\ sends_left = MaxSends
    /\ peer_left = IF mode = "neither" THEN MaxRequestorPdus ELSE pdus
    /\ first_evt = "none"
    /\ receive_ret = NoReturn
    /\ backlog = 0
    /\ connects_left = IF mode = "port" THEN connects ELSE 0
    /\ client_sockets = IF mode = "socket" THEN 1 ELSE 0
    /\ stop_at = "idle"
    /\ so_error = FALSE

DulInit == Constructed(MaxConnects, MaxPeerPdus)

\* The thread of the provider is inside run().
Running == loop \notin {"none", "ended", "crashed"}

\* The thread is between two passes of the loop or inside a recv call that
\* has nothing to return: the points at which what the peer and the clock do
\* is taken in.  What they do while the thread is elsewhere in a pass has the
\* effect of doing it before or after the pass.
Interleaved ==
    \/ loop = "top"
    \/ /\ loop \in {"drain", "recv_rest", "recv_length", "recv_body"}
       /\ net_in = <<>>
       /\ peer # "reset"

\* A provider object exists: its constructor returned.  kill, stop, send and
\* receive are plain method calls that take no lock; a thread of the service
\* user can make them at any point of a pass of the loop and after the loop
\* has ended, also while calls of stop() stand between their test and
\* their assignment.
Callable == loop # "none"

\* kill()
kill ==
    /\ Callable
    /\ is_killed' = TRUE
    /\ UNCHANGED <<current_state, timer, remote_client_socket,
                   local_server_socket, event, from_service_user,
                   to_service_user, pdu, primitive, loop, raw_pdu, tick,
                   thrown, peer, so_error, net_in, net_out, sends_left,
                   peer_left, stop_at>>
    /\ stop_ret' = "none"
    /\ receive_ret' = NoReturn
    /\ UNCHANGED <<dimse_vars, mode, first_evt, backlog, connects_left,
                   client_sockets>>

\* stop(): the test `self.state_machine.current_state == 'Sta1'`.
InSta1 == current_state = "Sta1"

\* stop() up to its test of the state: when the test fails the call returns
\* False; when it succeeds the call stands before the assignment to
\* is_killed.  stop() takes no lock, so the provider's thread and the other
\* calls, of stop() included, may run before the assignment is made:
\* stop_at = "tested" says that one call or more stand there.
StopTest ==
    /\ Callable
    /\ IF InSta1
       THEN /\ stop_at' = "tested"
            /\ stop_ret' = "none"
       ELSE /\ stop_at' = stop_at
            /\ stop_ret' = "False"
    /\ UNCHANGED <<is_killed, current_state, timer, remote_client_socket,
                   local_server_socket, event, from_service_user,
                   to_service_user, pdu, primitive, loop, raw_pdu, tick,
                   thrown, peer, so_error, net_in, net_out, sends_left,
                   peer_left>>
    /\ receive_ret' = NoReturn
    /\ UNCHANGED <<dimse_vars, mode, first_evt, backlog, connects_left,
                   client_sockets>>

\* stop() after a test that succeeded: `self.is_killed = True` and
\* `return True`, whatever the state has become meanwhile; it was the only
\* call standing there or others remain.
StopKill ==
    /\ stop_at = "tested"
    /\ is_killed' = TRUE
    /\ stop_ret' = "True"
    /\ stop_at' \in {"idle", "tested"}
    /\ UNCHANGED <<current_state, timer, remote_client_socket,
                   local_server_socket, event, from_service_user,
                   to_service_user, pdu, primitive, loop, raw_pdu, tick,
                   thrown, peer, so_error, net_in, net_out, sends_left,
                   peer_left>>
    /\ receive_ret' = NoReturn
    /\ UNCHANGED <<dimse_vars, mode, first_evt, backlog, connects_left,
                   client_sockets>>

\* stop()
stop == StopTest \/ StopKill

\* send(params): the primitive is put on from_service_user, nothing else.
send(p) ==
    /\ Callable
    /\ sends_left > 0
    /\ sends_left' = sends_left - 1
    /\ from_service_user' = Append(from_service_user, p)
    /\ UNCHANGED <<is_killed, stop_at, current_state, timer, remote_client_socket,
                   local_server_socket, event, to_service_user, pdu,
                   primitive, loop, raw_pdu, tick, thrown, peer, so_error, net_in,
                   net_out, peer_left>>
    /\ stop_ret' = "none"
    /\ receive_ret' = NoReturn
    /\ UNCHANGED <<dimse_vars, mode, first_evt, backlog, connects_left,
                   client_sockets>>

\* A get that takes the newest item of the queue.
QueueGetNewest(q) ==
    IF q = <<>> THEN [item |-> NoPrimitive, rest |-> q]
    ELSE [item |-> q[Len(q)], rest |-> SubSeq(q, 1, Len(q) - 1)]

\* to_service_user.get(False): the oldest item of the queue q and the queue
\* without it; Queue.Empty, which receive() turns into None, on an empty q.
QueueGet(q) ==
    IF q = <<>> THEN [item |-> NoPrimitive, rest |-> q]
    ELSE [item |-> Head(q), rest |-> Tail(q)]

\* receive(): the oldest primitive of to_service_user, None when empty.
receive ==
    /\ Callable
    /\ to_service_user' = QueueGet(to_service_user).rest
    /\ receive_ret' = [called |-> TRUE, value |-> QueueGet(to_service_user).item]
    /\ UNCHANGED <<is_killed, stop_at, current_state, timer, remote_client_socket,
                   local_server_socket, event, from_service_user, pdu,
                   primitive, loop, raw_pdu, tick, thrown, peer, so_error, net_in,
                   net_out, sends_left, peer_left>>
    /\ stop_ret' = "none"
    /\ UNCHANGED <<dimse_vars, mode, first_evt, backlog, connects_left,
                   client_sockets>>

\* A peer connects to the port the provider listens on.
PeerConnects ==
    /\ Interleaved
    /\ local_server_socket = "listening"
    /\ connects_left > 0
    /\ connects_left' = connects_left - 1
    /\ backlog' = backlog + 1
    /\ UNCHANGED <<is_killed, stop_at, current_state, timer, remote_client_socket,
                   local_server_socket, event, from_service_user,
                   to_service_user, pdu, primitive, loop, raw_pdu, tick,
                   thrown, peer, so_error, net_in, net_out, sends_left, peer_left>>
    /\ stop_ret' = "none"
    /\ receive_ret' = NoReturn
    /\ UNCHANGED <<dimse_vars, mode, first_evt, client_sockets>>

\* The peer writes the first k bytes of a PDU once what it wrote before has
\* been read; with k short of the PDU's length it writes nothing after them.
PeerWrites(pdu_type, k) ==
    /\ Interleaved
    /\ peer = "connected"
    /\ peer_left > 0
    /\ net_in = <<>>
    /\ k < Len(PduBytes(pdu_type)) => pdu_type = 4
    /\ net_in' = net_in \o SubSeq(PduBytes(pdu_type), 1, k)
    /\ peer_left' = IF k = Len(PduBytes(pdu_type)) THEN peer_left - 1 ELSE 0
    /\ UNCHANGED <<is_killed, stop_at, current_state, timer, remote_client_socket,
                   local_server_socket, event, from_service_user,
                   to_service_user, pdu, primitive, loop, raw_pdu, tick,
                   thrown, peer, so_error, net_out, sends_left>>
    /\ stop_ret' = "none"
    /\ receive_ret' = NoReturn
    /\ UNCHANGED <<dimse_vars, mode, first_evt, backlog, connects_left,
                   client_sockets>>

\* The peer closes the connection; what it wrote before can still be read.
PeerCloses ==
    /\ Interleaved
    /\ peer = "connected"
    /\ peer' = "closed"
    /\ UNCHANGED <<so_error, is_killed, stop_at, current_state, timer, remote_client_socket,
                   local_server_socket, event, from_service_user,
                   to_service_user, pdu, primitive, loop, raw_pdu, tick,
                   thrown, net_in, net_out, sends_left, peer_left>>
    /\ stop_ret' = "none"
    /\ receive_ret' = NoReturn
    /\ UNCHANGED <<dimse_vars, mode, first_evt, backlog, connects_left,
                   client_sockets>>

\* The connection is reset: what the peer wrote before can still be read;
\* the socket holds an error, which the first recv that finds nothing to
\* read raises as socket.error; the recv calls after that one return '' as
\* at the end of the stream.
PeerResets ==
    /\ Interleaved
    /\ peer = "connected"
    /\ peer' = "reset"
    /\ so_error' = TRUE
    /\ UNCHANGED <<net_in, is_killed, stop_at, current_state, timer, remote_client_socket,
                   local_server_socket, event, from_service_user,
                   to_service_user, pdu, primitive, loop, raw_pdu, tick,
                   thrown, net_out, sends_left, peer_left>>
    /\ stop_ret' = "none"
    /\ receive_ret' = NoReturn
    /\ UNCHANGED <<dimse_vars, mode, first_evt, backlog, connects_left,
                   client_sockets>>

\* The time of the running ARTIM timer is up.
TimerExpires ==
    /\ Interleaved
    /\ timer = "running"
    /\ timer' = "expired"
    /\ UNCHANGED <<is_killed, stop_at, current_state, remote_client_socket,
                   local_server_socket, event, from_service_user,
                   to_service_user, pdu, primitive, loop, raw_pdu, tick,
                   thrown, peer, so_error, net_in, net_out, sends_left, peer_left>>
    /\ stop_ret' = "none"
    /\ receive_ret' = NoReturn
    /\ UNCHANGED <<dimse_vars, mode, first_evt, backlog, connects_left,
                   client_sockets>>

\* run(): the test of `while not self.is_killed`.
LoopTest ==
    /\ loop = "top"
    /\ loop' = IF is_killed THEN "ended" ELSE "poll"
    /\ tick' = IF is_killed THEN tick
               ELSE [NoTick EXCEPT !.state = current_state]
    /\ UNCHANGED <<is_killed, stop_at, current_state, timer, remote_client_socket,
                   local_server_socket, event, from_service_user,
                   to_service_user, pdu, primitive, raw_pdu, thrown, peer, so_error,
                   net_in, net_out, sends_left, peer_left>>
    /\ stop_ret' = "none"
    /\ receive_ret' = NoReturn
    /\ UNCHANGED <<dimse_vars, mode, first_evt, backlog, connects_left,
                   client_sockets>>

\* check_incoming_primitive() or check_timer(), the part of the poll that
\* runs when check_network() has returned a false value.
CheckPrimitiveOrTimer ==
    IF from_service_user # <<>>
    THEN /\ primitive' = Head(from_service_user)
         /\ from_service_user' = Tail(from_service_user)
         /\ IF primitive_to_event(Head(from_service_user)) = "InvalidPrimitive"
            THEN /\ thrown' = "InvalidPrimitive"
                 /\ loop' = "crashed"
                 /\ UNCHANGED event
                 /\ tick' = [tick EXCEPT !.at = "primitive"]
            ELSE /\ event' = Append(event,
                                 primitive_to_event(Head(from_service_user)))
                 /\ loop' = "get"
                 /\ UNCHANGED thrown
                 /\ tick' = [tick EXCEPT !.at = "primitive",
                        !.put = primitive_to_event(Head(from_service_user))]
    ELSE /\ UNCHANGED <<primitive, from_service_user, thrown>>
         /\ loop' = "get"
         /\ IF timer = "expired"
            THEN /\ event' = Append(event, "Evt18")
                 /\ tick' = [tick EXCEPT !.at = "timer", !.put = "Evt18"]
            ELSE /\ UNCHANGED event
                 /\ tick' = tick

\* select() reports the client socket readable.
Readable == net_in # <<>> \/ peer \in {"closed", "reset"}

\* Evt17 is put and the client socket is kept.
TransportClosedKeepsSocket(at, recv) ==
    /\ event' = Append(event, "Evt17")
    /\ remote_client_socket' = remote_client_socket
    /\ client_sockets' = client_sockets
    /\ so_error' = FALSE
    /\ loop' = "get"
    /\ tick' = [tick EXCEPT !.at = at, !.recv = recv, !.put = "Evt17"]

\* Evt17 is put, the client socket is closed and forgotten.
TransportClosed(at, recv) ==
    /\ event' = Append(event, "Evt17")
    /\ remote_client_socket' = "None"
    /\ client_sockets' = client_sockets - 1
    /\ so_error' = FALSE
    /\ loop' = "get"
    /\ tick' = [tick EXCEPT !.at = at, !.recv = recv, !.put = "Evt17"]

\* A test that lets the listening socket be polled next to a client socket.
PollsListenerAlways == local_server_socket # "None"

\* check_network(): the test that guards the poll of the listening socket.
PollsListener == local_server_socket # "None" /\ remote_client_socket = "None"

\* check_network(): the oldest waiting connection is accepted; its socket
\* becomes the client socket and Evt5 is put.
Accept ==
    /\ remote_client_socket' = "open"
    /\ client_sockets' = client_sockets + 1
    /\ peer' = "connected"
    /\ so_error' = FALSE
    /\ net_in' = <<>>
    /\ event' = Append(event, "Evt5")
    /\ loop' = "get"
    /\ tick' = [tick EXCEPT !.at = "accept", !.put = "Evt5"]
    /\ UNCHANGED <<raw_pdu, primitive, from_service_user, thrown>>

\* check_network() up to its return or to its first recv that has to wait,
\* followed by the rest of the poll when it returns a false value.
CheckNetwork ==
    /\ loop = "poll"
    /\ IF current_state = "Sta13"
       THEN IF remote_client_socket = "None"
            THEN /\ CheckPrimitiveOrTimer
                 /\ UNCHANGED <<client_sockets, remote_client_socket, peer, so_error, net_in, raw_pdu>>
            ELSE /\ loop' = "drain"
                 /\ tick' = [tick EXCEPT !.at = "drain"]
                 /\ UNCHANGED <<client_sockets, remote_client_socket, peer, so_error, net_in, raw_pdu,
                                event, primitive, from_service_user, thrown>>
       ELSE IF PollsListener
       THEN IF backlog > 0
            THEN Accept
            ELSE /\ CheckPrimitiveOrTimer
                 /\ UNCHANGED <<client_sockets, remote_client_socket, peer, so_error, net_in, raw_pdu>>
       ELSE IF remote_client_socket # "None"
       THEN IF current_state = "Sta4"
            THEN /\ event' = Append(event, "Evt2")
                 /\ loop' = "get"
                 /\ tick' = [tick EXCEPT !.at = "connect", !.put = "Evt2"]
                 /\ UNCHANGED <<client_sockets, remote_client_socket, peer, so_error, net_in, raw_pdu,
                                primitive, from_service_user, thrown>>
            ELSE IF ~Readable
            THEN /\ CheckPrimitiveOrTimer
                 /\ UNCHANGED <<client_sockets, remote_client_socket, peer, so_error, net_in, raw_pdu>>
            ELSE IF net_in = <<>> /\ so_error
            THEN /\ TransportClosed("first", "error")
                 /\ UNCHANGED <<peer, net_in, raw_pdu, primitive,
                                from_service_user, thrown>>
            ELSE IF net_in = <<>>
            THEN /\ TransportClosed("first", "eof")
                 /\ UNCHANGED <<peer, net_in, raw_pdu, primitive,
                                from_service_user, thrown>>
            ELSE /\ raw_pdu' = <<Head(net_in)>>
                 /\ net_in' = Tail(net_in)
                 /\ loop' = "recv_rest"
                 /\ tick' = [tick EXCEPT !.at = "first", !.recv = "data"]
                 /\ UNCHANGED <<client_sockets, remote_client_socket, peer, so_error, event, primitive,
                                from_service_user, thrown>>
       ELSE /\ CheckPrimitiveOrTimer
            /\ UNCHANGED <<client_sockets, remote_client_socket, peer, so_error, net_in, raw_pdu>>
    /\ backlog' = IF tick'.at = "accept" THEN backlog - 1 ELSE backlog
    /\ UNCHANGED <<is_killed, stop_at, current_state, timer, local_server_socket,
                   to_service_user, pdu, net_out, sends_left, peer_left>>
    /\ stop_ret' = "none"
    /\ receive_ret' = NoReturn
    /\ UNCHANGED <<dimse_vars, mode, first_evt, connects_left>>

\* check_network() in Sta13: the passes of `while recv(1) != ''` through the
\* bytes at hand.  recv waits while the peer neither writes nor closes.  The
\* error a reset has left on the socket is raised by the recv that follows
\* the last unread byte: the drain returns False and keeps the socket, and
\* the recv of the next pass returns ''.
Drain ==
    /\ loop = "drain"
    /\ Readable
    /\ IF net_in = <<>> /\ so_error
       THEN /\ CheckPrimitiveOrTimer
            /\ so_error' = FALSE
            /\ UNCHANGED <<client_sockets, remote_client_socket, net_in>>
       ELSE IF net_in = <<>>
       THEN /\ TransportClosed("drain", "eof")
            /\ UNCHANGED <<net_in, primitive, from_service_user, thrown>>
       ELSE /\ net_in' = <<>>
            /\ UNCHANGED <<client_sockets, remote_client_socket, loop, tick,
                           event, primitive, from_service_user, thrown,
                           so_error>>
    /\ UNCHANGED <<is_killed, stop_at, current_state, timer, local_server_socket,
                   to_service_user, pdu, raw_pdu, peer, net_out, sends_left,
                   peer_left>>
    /\ stop_ret' = "none"
    /\ receive_ret' = NoReturn
    /\ UNCHANGED <<dimse_vars, mode, first_evt, backlog, connects_left>>

\* The length raw_pdu has when the recv_n call in progress returns.
RecvTarget ==
    CASE loop = "recv_rest" -> 2
      [] loop = "recv_length" -> PduHeaderLen
      [] loop = "recv_body" ->
             PduHeaderLen + UnpackL(SubSeq(raw_pdu, 3, PduHeaderLen))

\* The recv_n call that follows the one returning raw, "done" after the
\* last; a call for no bytes returns at once.
AfterRecv(at, raw) ==
    CASE at = "recv_rest" -> "recv_length"
      [] at = "recv_length" ->
             IF UnpackL(SubSeq(raw, 3, PduHeaderLen)) = 0 THEN "done"
             ELSE "recv_body"
      [] at = "recv_body" -> "done"

\* The end of check_incoming_pdu once the PDU has been read.
PduRead(raw) ==
    /\ pdu' = socket_to_pdu(raw)
    /\ IF pdu_to_event(socket_to_pdu(raw)) = "TypeError"
       THEN /\ thrown' = "TypeError"
            /\ loop' = "crashed"
            /\ tick' = [tick EXCEPT !.at = "pdu", !.recv = "data"]
            /\ UNCHANGED <<event, primitive>>
       ELSE /\ event' = Append(event, pdu_to_event(socket_to_pdu(raw)))
            /\ primitive' = PduToParams(socket_to_pdu(raw))
            /\ loop' = "get"
            /\ tick' = [tick EXCEPT !.at = "pdu", !.recv = "data",
                            !.put = pdu_to_event(socket_to_pdu(raw))]
            /\ UNCHANGED thrown

\* recv_n(sock, n): one pass of its while loop.  recv waits while the peer
\* neither writes nor closes; at end of stream it returns '' and the loop
\* goes round again; the error a reset has left on the socket is raised,
\* once the bytes written before it have been read, as socket.error, which
\* nothing between recv_n and run() catches.
RecvN ==
    /\ loop \in {"recv_rest", "recv_length", "recv_body"}
    /\ Readable
    /\ so_error' = IF net_in = <<>> THEN FALSE ELSE so_error
    /\ IF net_in = <<>> /\ so_error
       THEN /\ thrown' = "socket.error"
            /\ loop' = "crashed"
            /\ tick' = [tick EXCEPT !.at = loop, !.recv = "error"]
            /\ UNCHANGED <<raw_pdu, net_in, pdu, event, primitive>>
       ELSE IF net_in = <<>>
       THEN /\ tick' = [tick EXCEPT !.at = loop, !.recv = "eof"]
            /\ UNCHANGED <<raw_pdu, net_in, pdu, event, primitive, thrown,
                           loop>>
       ELSE LET n == Min(RecvTarget - Len(raw_pdu), Len(net_in))
                raw == raw_pdu \o SubSeq(net_in, 1, n)
            IN  /\ raw_pdu' = raw
                /\ net_in' = SubSeq(net_in, n + 1, Len(net_in))
                /\ IF Len(raw) < RecvTarget
                   THEN /\ tick' = [tick EXCEPT !.at = loop, !.recv = "data"]
                        /\ UNCHANGED <<pdu, event, primitive, thrown, loop>>
                   ELSE IF AfterRecv(loop, raw) = "done"
                   THEN PduRead(raw)
                   ELSE /\ loop' = AfterRecv(loop, raw)
                        /\ tick' = [tick EXCEPT !.at = loop,
                                                !.recv = "data"]
                        /\ UNCHANGED <<pdu, event, primitive, thrown>>
    /\ UNCHANGED <<is_killed, stop_at, current_state, timer,
                   remote_client_socket, local_server_socket,
                   from_service_user, to_service_user, peer, net_out,
                   sends_left, peer_left>>
    /\ stop_ret' = "none"
    /\ receive_ret' = NoReturn
    /\ UNCHANGED <<dimse_vars, mode, first_evt, backlog, connects_left,
                   client_sockets>>

\* state_machine.action(evt, self)
Dispatch(evt) ==
    LET act == FsmAction(current_state, evt)
        sent == IF SendsPdu(act) # 0 /\ remote_client_socket # "None"
                THEN Append(net_out, SendsPdu(act)) ELSE net_out
    IN  /\ current_state' = NextState(current_state, act, Contains(net_out, 1))
        /\ net_out' = sent
        /\ to_service_user' =
              IF IndicatesPrimitive(act) THEN Append(to_service_user, primitive)
              ELSE IF IndicatesAPAbort(act)
                   THEN Append(to_service_user, APAbort)
                   ELSE to_service_user
        /\ timer' = IF StartsTimer(act) THEN "running"
                    ELSE IF StopsTimer(act) THEN "stopped" ELSE timer
        /\ remote_client_socket' =
              IF ClosesTransport(act) THEN "None"
              ELSE IF OpensTransport(act) THEN "open"
                   ELSE remote_client_socket
        /\ client_sockets' =
              IF ClosesTransport(act) /\ remote_client_socket # "None"
              THEN client_sockets - 1
              ELSE IF OpensTransport(act) THEN client_sockets + 1
                   ELSE client_sockets
        /\ peer' = IF OpensTransport(act) THEN "connected" ELSE peer
        /\ so_error' = IF OpensTransport(act) \/ ClosesTransport(act)
                       THEN FALSE ELSE so_error
        /\ net_in' = IF OpensTransport(act) THEN <<>> ELSE net_in

\* run(): event.get(False), then the state machine's action on the event;
\* with no event the loop goes round.
GetEvent ==
    /\ loop = "get"
    /\ loop' = "top"
    /\ raw_pdu' = <<>>
    /\ IF event = <<>>
       THEN /\ tick' = NoTick
            /\ UNCHANGED <<event, current_state, net_out, to_service_user,
                           timer, remote_client_socket, peer, so_error, net_in,
                           first_evt, client_sockets>>
       ELSE /\ event' = Tail(event)
            /\ tick' = [NoTick EXCEPT !.state = current_state,
                                      !.got = Head(event)]
            /\ first_evt' = IF first_evt = "none" THEN Head(event)
                            ELSE first_evt
            /\ Dispatch(Head(event))
    /\ UNCHANGED <<is_killed, stop_at, local_server_socket, from_service_user, pdu,
                   primitive, thrown, sends_left, peer_left>>
    /\ stop_ret' = "none"
    /\ receive_ret' = NoReturn
    /\ UNCHANGED <<dimse_vars, mode, backlog, connects_left>>

DulNext ==
    \/ stop
    \/ kill
    \/ \E p \in UserPrimitives : send(p)
    \/ receive
    \/ PeerConnects
    \/ \E t \in PeerPduTypes : \E k \in CutPoints \cup {Len(PduBytes(t))} :
          PeerWrites(t, k)
    \/ PeerCloses
    \/ PeerResets
    \/ TimerExpires
    \/ LoopTest
    \/ CheckNetwork
    \/ Drain
    \/ RecvN
    \/ GetEvent

DulSpec == DulInit /\ [][DulNext]_vars

\* DULServiceProvider(port=p): a listening provider to whose port peers
\* open more than one connection.
ListenInit == Constructed(MaxListenConnects, MaxListenPdus) /\ mode = "port"

ListenSpec == ListenInit /\ [][DulNext]_vars

\* The thread of the provider is scheduled as long as it can take a step.
LoopStep == LoopTest \/ CheckNetwork \/ Drain \/ RecvN \/ GetEvent

DulFairSpec == DulSpec /\ WF_vars(LoopStep)

(***************************************************************************)
(* Properties.                                                             *)
(***************************************************************************)
ReceiverErrors ==
    {"KeyError", "TypeError", "DecodeError", "DIMSEProcessingError",
     "RuntimeError"}

\* The control headers and the fragments of a list of one-PDV PDUs.
Headers(pdus) ==
    [i \in 1..Len(pdus) |-> pdus[i].data_value_items[1].data_value[1]]
Fragments(pdus) ==
    [i \in 1..Len(pdus) |-> Tail(pdus[i].data_value_items[1].data_value)]

\* A data set that is absent counts as the empty one.
DataOf(v) == IF v = None THEN <<>> ELSE v

\* C1: in netdicom2, for every message built by a variant of the catalog and every
\* max_pdu_length >= 16, the receiver fed the PDUs of encode in order never
\* fails, reports complete on the last PDU and on no other, and then holds
\* the sender's command set and data set.
C1_EncodeDecodeRoundTrip ==
    (pc = "encoded" /\ impl = "netdicom2") =>
        /\ rx_ret \notin ReceiverErrors
        /\ (rx_ret = "True") <=> (wire = <<>>)
        /\ rx_ret = "True" =>
              /\ rx.command_set = msg.command_set
              /\ DataOf(rx.data_set) = DataOf(msg.data_set)

\* C2: for max_pdu_length >= 7 fragment terminates, the concatenation of
\* its chunks is its input and no chunk is longer than max_pdu_length - 6.
C2_FragmentRoundTrip ==
    /\ [](pc = "fragment_done" =>
            /\ f_max >= 7
            /\ Join(f_fragments) = f_in
            /\ \A i \in 1..Len(f_fragments) :
                  Len(f_fragments[i]) <= f_max - 6)
    /\ (pc = "fragment") ~> (pc = "fragment_done")

\* C2, reached: a run of fragment that ended with three chunks.
C2_Witness ==
    /\ pc = "fragment_done"
    /\ f_max = 8
    /\ Len(f_in) = 5
    /\ Len(f_fragments) = 3

\* C3: encode of netdicom2 emits the command fragments first, headers 0x01 then 0x03 on
\* the last one, and then, only if a data set is present, the data fragments,
\* headers 0x00 then 0x02 on the last one; every PDU holds one PDV and every
\* PDV the presentation context id given to encode.
C3_EncodeOrder ==
    (pc = "encoded" /\ impl = "netdicom2") =>
        LET h == Headers(p_datas)
            n == Len(p_datas)
        IN  /\ \A i \in 1..n :
                  /\ Len(p_datas[i].data_value_items) = 1
                  /\ p_datas[i].data_value_items[1].context_id = enc_ctx
            /\ \E k \in 1..n :
                  /\ h[k] = 3
                  /\ \A i \in 1..(k - 1) : h[i] = 1
                  /\ (k < n) <=> TruthyStr(msg.data_set)
                  /\ k < n => h[n] = 2 /\ \A i \in (k + 1)..(n - 1) : h[i] = 0
                  /\ Join(SubSeq(Fragments(p_datas), 1, k)) =
                        dsutils_encode(msg.command_set)
                  /\ k < n =>
                        Join(SubSeq(Fragments(p_datas), k + 1, n)) = msg.data_set

\* C3, reached: an encoded message with several command PDUs followed by several data PDUs.
C3_Witness ==
    /\ pc = "encoded"
    /\ impl = "netdicom2"
    /\ enc_ctx = 3
    /\ \E k \in 2..(Len(p_datas) - 2) :
          /\ Headers(p_datas)[k] = 3
          /\ Headers(p_datas)[k + 1] = 0

\* A PDV that changed nothing but the buffer of its phase (and id_).
OnlyAppends(im, e) ==
    LET buffered == IF e.marker = 1
                    THEN [e.before EXCEPT
                             !.encoded_command_set =
                                 IF im = "netdicom2" THEN Append(@, e.payload)
                                 ELSE @ \o e.payload]
                    ELSE IF im = "netdicom2"
                    THEN [e.before EXCEPT
                             !.encoded_data_set = Append(@, e.payload)]
                    ELSE [e.before EXCEPT !.data_set = @ \o e.payload]
    IN  [e.after EXCEPT !.id_ = e.before.id_] = buffered

\* C4: decode reports complete only on a last-fragment marker: on a last
\* command fragment iff the decoded command set has DataSetType 0x0101, and
\* otherwise on the next last data fragment; a non-last fragment (header 0
\* or 1) returns not-complete and only appends to its pending buffer.
C4_CompleteOnlyOnLastFragment ==
    \A i \in 1..Len(rx_log) :
        LET e == rx_log[i]
        IN  /\ e.ret = "True" => e.marker \in {2, 3}
            /\ e.marker \in {0, 1} => e.ret = "continue" /\ OnlyAppends(impl, e)
            /\ (e.marker = 3 /\ e.ret \in {"True", "continue"}) =>
                  ((e.ret = "True") <=>
                      (e.after.command_set[DataSetType] = <<NO_DATASET>>))
            /\ e.marker = 2 => e.ret = "True"

\* C5: in netdicom2 the variant registered under an opcode builds messages whose
\* CommandField is that opcode.
C5_CommandFieldIsRegisteredOpcode ==
    (pc = "built" /\ impl = "netdicom2") =>
        msg.command_set[CommandField] = CommandFieldAsRegistered(msg.cls)

\* C6: every message produced by from_params has DataSetType 0x0101 iff
\* its data set is empty or absent.
C6_DataSetTypeConsistent ==
    pc = "built" =>
        ((msg.command_set[DataSetType] = <<NO_DATASET>>)
            <=> ~TruthyStr(msg.data_set))

\* The requests that carry a data set or an identifier, and the one the
\* parameter object gives.
DataRequests ==
    {"CStoreRQMessage", "CFindRQMessage", "CGetRQMessage", "CMoveRQMessage"}
GivenData ==
    IF msg.cls = "CStoreRQMessage" THEN params.data_set ELSE params.identifier

\* C7 as stated: from_params of C-STORE-RQ, C-FIND-RQ, C-GET-RQ and C-MOVE-RQ
\* gives a DataSetType other than 0x0101 for every parameter object.
C7_RequestsAlwaysAnnounceData ==
    (pc = "built" /\ impl = "netdicom2" /\ msg.cls \in DataRequests) =>
        msg.command_set[DataSetType] # <<NO_DATASET>>

\* C7 as amended: from_params of C-STORE-RQ, C-FIND-RQ, C-GET-RQ and
\* C-MOVE-RQ gives a DataSetType other than 0x0101 for every parameter
\* object whose data set or identifier is not empty.
C7_RequestsWithDataAnnounceData ==
    (pc = "built" /\ msg.cls \in DataRequests /\ TruthyStr(GivenData)) =>
        /\ msg.command_set[DataSetType] # <<NO_DATASET>>
        /\ msg.data_set = GivenData

\* C7, reached: a C-STORE-RQ built from a two-byte data set announces it.
C7_Witness ==
    /\ pc = "built"
    /\ impl = "netdicom2"
    /\ msg.cls = "CStoreRQMessage"
    /\ Len(DataOf(params.data_set)) = 2
    /\ msg.command_set[DataSetType] = <<DataSetPresent>>

Responses ==
    {"CEchoRSPMessage", "CStoreRSPMessage", "CFindRSPMessage",
     "CGetRSPMessage", "CMoveRSPMessage"}

\* C8: a response built by from_params has DataSetType 0x0101 when it has no
\* trailing data set and another value when it carries an identifier; a
\* C-FIND-RSP with an identifier is encoded with data PDVs, one without an
\* identifier with command PDVs only.
C8_ResponseDataSetType ==
    (pc = "encoded" /\ msg.cls \in Responses) =>
        LET h == Headers(p_datas)
            dst == msg.command_set[DataSetType]
        IN  /\ ~TruthyStr(msg.data_set) => dst = <<NO_DATASET>>
            /\ TruthyStr(msg.data_set) =>
                  /\ dst # <<NO_DATASET>>
                  /\ h[Len(h)] = 2
            /\ (msg.cls = "CFindRSPMessage" /\ TruthyStr(params.identifier)) =>
                  /\ msg.data_set = params.identifier
                  /\ dst # <<NO_DATASET>>
                  /\ h[Len(h)] = 2
            /\ params.identifier = None =>
                  /\ dst = <<NO_DATASET>>
                  /\ \A i \in 1..Len(h) : h[i] \in {1, 3}
            /\ (impl = "netdicom2" /\ params.identifier = <<>>) =>
                  \A i \in 1..Len(h) : h[i] \in {1, 3}

\* C8, reached: a pending C-FIND-RSP with an identifier, encoded with several data PDUs.
C8_Witness ==
    /\ pc = "encoded"
    /\ msg.cls = "CFindRSPMessage"
    /\ params.status = <<65280>>
    /\ Len(DataOf(params.identifier)) = MaxDataLen
    /\ \E i \in 1..Len(p_datas) : Headers(p_datas)[i] = 0

\* The fields each variant requires of its parameter object.
RequiredFields(cls) ==
    CASE cls = "CEchoRQMessage" -> {"affected_sop_class_uid", "message_id"}
      [] cls = "CEchoRSPMessage" ->
            {"affected_sop_class_uid", "message_id_being_responded_to", "status"}
      [] cls = "CStoreRQMessage" ->
            {"affected_sop_class_uid", "message_id", "priority",
             "affected_sop_instance_uid", "move_originator_aet",
             "move_originator_message_id", "data_set"}
      [] cls = "CStoreRSPMessage" ->
            {"affected_sop_class_uid", "message_id_being_responded_to",
             "status", "affected_sop_instance_uid"}
      [] cls \in {"CFindRQMessage", "CGetRQMessage"} ->
            {"affected_sop_class_uid", "message_id", "priority", "identifier"}
      [] cls = "CFindRSPMessage" ->
            {"affected_sop_class_uid", "message_id_being_responded_to",
             "status", "identifier"}
      [] cls \in {"CGetRSPMessage", "CMoveRSPMessage"} ->
            {"affected_sop_class_uid", "message_id_being_responded_to",
             "status", "num_of_remaining_sub_ops", "num_of_completed_sub_ops",
             "num_of_failed_sub_ops", "num_of_warning_sub_ops"}
      [] cls = "CMoveRQMessage" ->
            {"affected_sop_class_uid", "message_id", "priority",
             "move_destination", "identifier"}
      [] OTHER -> {"message_id_being_responded_to"}

\* C9: from_params followed by to_params gives back the parameter object on
\* all the fields the variant requires.
C9_ParamsRoundTrip ==
    pc = "returned" =>
        \A f \in RequiredFields(msg.cls) : out_params[f] = params[f]

HasIllegalHeader(p_data) ==
    \E i \in 1..Len(p_data.data_value_items) :
        p_data.data_value_items[i].data_value[1] \notin {0, 1, 2, 3}

\* C10 as stated: a PDV whose control header is not 0, 1, 2 or 3 makes
\* decode fail instead of returning complete or not-complete, wherever the
\* PDV stands in the P-DATA-TF.
C10_IllegalHeaderFails ==
    (/\ pc = "receiving"
     /\ impl = "netdicom2"
     /\ wire = <<>>
     /\ HasIllegalHeader(p_datas[Len(p_datas)])) =>
        rx_ret \notin {"True", "False"}

\* C10 as amended: a PDV whose control header is not 0, 1, 2 or 3 makes
\* decode fail (DIMSEProcessingError in netdicom2, RuntimeError in the
\* legacy copy) when decode comes to it, whatever was accumulated before,
\* and the failure leaves what was accumulated as it was; decode comes to
\* every PDV of the P-DATA-TF up to the first one that completes the
\* message or fails, and to none after it.
C10_IllegalHeaderFailsWhenReached ==
    /\ \A i \in 1..Len(rx_log) :
          rx_log[i].header \notin {0, 1, 2, 3} =>
              /\ rx_log[i].ret = IF impl = "netdicom2"
                                 THEN "DIMSEProcessingError"
                                 ELSE "RuntimeError"
              /\ [rx_log[i].after EXCEPT !.id_ = None] =
                    [rx_log[i].before EXCEPT !.id_ = None]
    /\ (pc = "receiving" /\ wire = <<>>) =>
          LET items == p_datas[Len(p_datas)].data_value_items
          IN  /\ Len(rx_log) <= Len(items)
              /\ \A i \in 1..Len(rx_log) :
                    /\ rx_log[i].header = items[i].data_value[1]
                    /\ i < Len(rx_log) => rx_log[i].ret = "continue"
              /\ Len(rx_log) < Len(items) => rx_ret # "False"

\* C10, reached: in netdicom2 an illegal PDV that follows a non-last command
\* fragment in the same P-DATA-TF raises DIMSEProcessingError.
C10_Witness ==
    /\ pc = "receiving"
    /\ impl = "netdicom2"
    /\ rx_ret = "DIMSEProcessingError"
    /\ Len(rx_log) = 2
    /\ rx_log[1].header = 1
    /\ rx_log[2].header = 5

Ceil(a, b) == (a + b - 1) \div b

\* C11: in netdicom2, when the last command fragment decodes to a command
\* set whose CommandField is no opcode of the catalog, decode fails with the
\* error of an illegal control header (DIMSEProcessingError) and with no
\* other failure.
C11_UnknownOpcodeIsProtocolError ==
    impl = "netdicom2" =>
        \A i \in 1..Len(rx_log) :
            LET e == rx_log[i]
                cs == e.after.command_set
            IN  (/\ e.marker = 3
                 /\ e.ret # "DecodeError"
                 /\ cs[CommandField] # <<>>
                 /\ cs[CommandField][1] \notin DOMAIN MESSAGE_TYPE) =>
                    e.ret = "DIMSEProcessingError"

\* C12: on every message returned by from_params of netdicom2 the value of
\* (0000,0000) is the sum of the encoded lengths of all the other elements
\* of the command set.
C12_GroupLengthIsSumOfOthers ==
    (pc = "built" /\ impl = "netdicom2") =>
        msg.command_set[CommandGroupLength] =
            <<SumLengths(msg.command_set,
                         SortedTags(DOMAIN msg.command_set
                                    \ {CommandGroupLength}))>>

\* C13: in netdicom2 every message decode reported complete has been
\* narrowed to a variant of the catalog on which to_params succeeds and
\* returns the parameter object of its service, C-CANCEL-RQ included.
C13_CompleteMessageHasToParams ==
    (pc = "extracted" /\ rx.cls \in Variants) =>
        out_params.kind \in
            {"CEchoServiceParameters", "CStoreServiceParameters",
             "CFindServiceParameters", "CGetServiceParameters",
             "CMoveServiceParameters"}

\* C14: with m = max_pdu_length - 6, encode of netdicom2 returns ceil(c/m)
\* command PDUs for a command set of c > 0 bytes, followed by ceil(d/m) data
\* PDUs for a data set of d > 0 bytes and by none without a data set; a
\* message without data set whose command set fits in m bytes is one PDU
\* with one PDV of header 0x03.
C14_PduCounts ==
    (pc = "encoded" /\ impl = "netdicom2") =>
        LET m == enc_max - 6
            c == Len(dsutils_encode(msg.command_set))
            d == Len(DataOf(msg.data_set))
            h == Headers(p_datas)
            commands == {i \in 1..Len(h) : h[i] \in {1, 3}}
            datas == {i \in 1..Len(h) : h[i] \in {0, 2}}
        IN  /\ c > 0
            /\ Cardinality(commands) = Ceil(c, m)
            /\ Cardinality(datas) = IF d > 0 THEN Ceil(d, m) ELSE 0
            /\ Cardinality(commands) + Cardinality(datas) = Len(h)
            /\ (d = 0 /\ c <= m) =>
                  /\ Len(p_datas) = 1
                  /\ Len(p_datas[1].data_value_items) = 1
                  /\ h[1] = 3

\* C14, reached: a message without data set, encoded with a max_pdu_length
\* its command set fits in, is one PDU of header 0x03.
C14_Witness ==
    /\ pc = "encoded"
    /\ impl = "netdicom2"
    /\ enc_max = LargePdu
    /\ ~TruthyStr(msg.data_set)
    /\ Len(p_datas) = 1
    /\ Headers(p_datas)[1] = 3

\* C15: when a PDU of an unknown type (0x0A) has been read in Sta6, the
\* provider has put Evt19 on its event queue for the state machine to abort
\* the association, and its loop is still running.
C15_UnknownPduRaisesEvt19 ==
    (tick.at = "pdu" /\ tick.state = "Sta6" /\ raw_pdu[1] = UnknownPduType)
        => (tick.put = "Evt19" /\ thrown = "none" /\ loop = "get")

\* C16: when a recv of check_incoming_pdu has failed or has met the end of
\* the stream, at the first byte, in the rest of the header or in the body,
\* Evt17 has been put, the loop goes on and nothing has left run().
C16_ReadFailureRaisesEvt17 ==
    (tick.recv \in {"eof", "error"} /\ tick.at # "drain")
        => (tick.put = "Evt17" /\ thrown = "none" /\ loop = "get")

\* C17: a primitive the provider does not recognise is refused by send():
\* it never stands in from_service_user, and InvalidPrimitive never leaves
\* the provider's loop.
C17_InvalidPrimitiveRejectedBySend ==
    /\ \A i \in 1..Len(from_service_user) :
          primitive_to_event(from_service_user[i]) # "InvalidPrimitive"
    /\ thrown # "InvalidPrimitive"

\* C18: once kill() has been called, the loop of the provider terminates,
\* whatever state it is in.
C18_KillTerminatesLoop == is_killed ~> ~Running

\* C19: when the loop has ended because of kill(), the provider holds no open
\* client socket.
C19_KilledProviderHoldsNoSocket ==
    loop = "ended" => remote_client_socket = "None"

\* The flag is set and True returned only by a call of stop() whose test
\* found the state machine in Sta1; a call returns False only when its test
\* finds another state; neither step of stop() touches the three queues or
\* the state of the machine, and the test and the return of False leave the
\* kill flag as it is.
StopFollowsItsTest ==
    [][/\ (stop_at = "idle" /\ stop_at' = "tested") =>
             /\ current_state = "Sta1"
             /\ UNCHANGED <<is_killed, event, from_service_user,
                            to_service_user, current_state>>
       /\ stop_ret' = "False" =>
             /\ current_state # "Sta1"
             /\ UNCHANGED <<is_killed, stop_at, event, from_service_user,
                            to_service_user, current_state>>
       /\ stop_ret' = "True" =>
             /\ stop_at = "tested"
             /\ is_killed'
             /\ UNCHANGED <<event, from_service_user, to_service_user,
                            current_state>>
       /\ (stop_at = "tested" /\ stop_at' # "tested") =>
             stop_ret' = "True" /\ is_killed']_vars

\* C20: a call of stop() returns True and sets the kill flag only with the
\* state machine in Sta1; with the machine in any other state it returns
\* False and leaves the kill flag as it is; in both cases the three queues
\* and the state of the machine stay as they are.
C20_StopOnlyInSta1 ==
    [][/\ stop_ret' = "True" =>
             /\ current_state = "Sta1"
             /\ is_killed'
             /\ UNCHANGED <<event, from_service_user, to_service_user,
                            current_state>>
       /\ stop_ret' = "False" =>
             /\ current_state # "Sta1"
             /\ UNCHANGED <<is_killed, event, from_service_user,
                            to_service_user, current_state>>]_vars


\* C21: whenever the ARTIM timer has expired while the loop is running, Evt18
\* is eventually taken from the event queue and dispatched, unless the loop
\* has ended or the timer has been stopped or restarted meanwhile, whatever
\* the peer and the service user do.
C21_ExpiredTimerRaisesEvt18 ==
    (timer = "expired" /\ Running)
        ~> (tick.got = "Evt18" \/ ~Running \/ timer # "expired")


\* The dispatch of an event has just ended.
Dispatched == loop = "top" /\ tick.got # "none"

\* The ARTIM timer is stopped whenever the state machine is in Sta5.
TimerStoppedInSta5 == current_state = "Sta5" => timer = "stopped"


\* The event the PDU type t is translated to.
EventOfPduType(t) ==
    CASE t = 1 -> "Evt6"
      [] t = 2 -> "Evt3"
      [] t = 3 -> "Evt4"
      [] t = 4 -> "Evt10"
      [] t = 5 -> "Evt12"
      [] t = 6 -> "Evt13"
      [] t = 7 -> "Evt16"

\* The step ends the reading of a PDU from the client socket.
ReadsPdu == tick.at # "pdu" /\ tick'.at = "pdu"

\* C24: the step that ends the reading of a PDU puts exactly one event at the
\* tail of the event queue; for the type bytes 0x01 to 0x07 it is Evt6, Evt3,
\* Evt4, Evt10, Evt12, Evt13 and Evt16.
C24_PduRaisesItsEvent ==
    [][ReadsPdu =>
          \E e \in Events :
             /\ event' = Append(event, e)
             /\ raw_pdu'[1] \in 1..7 => e = EventOfPduType(raw_pdu'[1])]_vars

\* The same for the PDUs of the seven known types only.
KnownPduRaisesItsEvent ==
    [][ReadsPdu /\ raw_pdu'[1] \in 1..7 =>
          event' = Append(event, EventOfPduType(raw_pdu'[1]))]_vars


\* The primitives of the four classes the provider recognises.
KnownPrimitives == {p \in UserPrimitives : p.kind # "Other"}

\* The event a primitive of the four classes is classified as.
EventOfPrimitive(p) ==
    CASE p = Primitive("AAssociate", None) -> "Evt1"
      [] p = Primitive("AAssociate", <<0>>) -> "Evt7"
      [] p.kind = "AAssociate" /\ p.result \notin {None, <<0>>} -> "Evt8"
      [] p = Primitive("PData", None) -> "Evt9"
      [] p = Primitive("ARelease", None) -> "Evt11"
      [] p.kind = "ARelease" /\ p.result # None -> "Evt14"
      [] p = Primitive("AAbort", None) -> "Evt15"

\* The step takes a primitive from from_service_user.
TakesPrimitive ==
    /\ from_service_user # <<>>
    /\ from_service_user' = Tail(from_service_user)

\* C25: the step that takes a primitive from from_service_user puts exactly
\* one event at the tail of the event queue: Evt1, Evt7 or Evt8 for
\* A-ASSOCIATE with no result, result 0 or another result, Evt9 for P-DATA,
\* Evt11 or Evt14 for A-RELEASE without or with a result, Evt15 for A-ABORT.
C25_PrimitiveRaisesItsEvent ==
    [][TakesPrimitive =>
          \E e \in Events :
             /\ event' = Append(event, e)
             /\ Head(from_service_user) \in KnownPrimitives =>
                   e = EventOfPrimitive(Head(from_service_user))]_vars

\* The same for the primitives of the four classes only.
KnownPrimitiveRaisesItsEvent ==
    [][TakesPrimitive /\ Head(from_service_user) \in KnownPrimitives =>
          event' = Append(event, EventOfPrimitive(Head(from_service_user)))]_vars


\* C26: a call of receive() returns the oldest primitive of to_service_user
\* and removes it and nothing else; on an empty queue it returns None and
\* removes nothing; every other step leaves the queue alone or puts one
\* primitive at its tail, wherever the loop thread stands.
C26_ReceiveIsFifo ==
    [][/\ receive_ret'.called =>
             IF to_service_user = <<>>
             THEN /\ receive_ret'.value = NoPrimitive
                  /\ to_service_user' = <<>>
             ELSE /\ receive_ret'.value = Head(to_service_user)
                  /\ to_service_user' = Tail(to_service_user)
       /\ ~receive_ret'.called =>
             \/ to_service_user' = to_service_user
             \/ \E x \in UserPrimitives \cup {APAbort, NoPrimitive} :
                   to_service_user' = Append(to_service_user, x)]_vars

\* receive() has returned a primitive while a later one waits in the queue
\* and the loop thread is inside a recv call.
C26_Witness ==
    /\ receive_ret.called
    /\ receive_ret.value # NoPrimitive
    /\ to_service_user # <<>>
    /\ receive_ret.value # Head(to_service_user)
    /\ loop # "top"


\* C27: a provider constructed on a connected socket has Evt5 at the head of
\* its event queue until the first dispatch, and the first event dispatched
\* is Evt5; a provider constructed with both a socket and a port has raised
\* RuntimeError and has no loop.
C27_Evt5DispatchedFirst ==
    /\ mode = "socket" =>
          IF first_evt = "none"
          THEN event # <<>> /\ Head(event) = "Evt5"
          ELSE first_evt = "Evt5"
    /\ mode = "both" =>
          /\ thrown = "RuntimeError"
          /\ ~Running
          /\ loop # "ended"
          /\ event = <<>>

\* Evt5 has been dispatched as the first event of a provider constructed on
\* a socket while the event of a PDU read from that socket waits behind it.
C27_Witness ==
    /\ mode = "socket"
    /\ Dispatched
    /\ tick.got = "Evt5"
    /\ first_evt = "Evt5"
    /\ event # <<>>
    /\ Head(event) \in ReceivedPduEvents


\* check_network() returns a false value in the step about to be taken: in
\* Sta13 without client socket or on socket.error, with nothing waiting on
\* the listener, with nothing to read on the client socket, without socket.
NetworkSilent ==
    \/ loop = "drain" /\ so_error /\ net_in = <<>>
    \/ /\ loop = "poll"
       /\ IF current_state = "Sta13" THEN remote_client_socket = "None"
          ELSE IF local_server_socket # "None" /\ remote_client_socket = "None"
               THEN backlog = 0
               ELSE IF remote_client_socket # "None"
                    THEN current_state # "Sta4" /\ ~Readable
                    ELSE TRUE

\* The step asks the queue of the service user, the timer.
PollsPrimitive == tick'.at = "primitive" /\ tick.at # "primitive"
PollsTimer == tick'.at = "timer" /\ tick.at # "timer"

\* In a pass of the loop the queue of the service user is asked only when
\* the network has nothing to report, and the timer only when that queue is
\* empty as well; while the network has something to report no primitive
\* leaves that queue, whatever send() adds to it meanwhile; a pass puts at
\* most one event, always at the tail of the event queue; the only step
\* that removes from the event queue is the one at the end of the pass,
\* which removes the head and dispatches it, and that step dispatches
\* nothing else.
PollOrderAndFifo ==
    [][/\ PollsPrimitive => NetworkSilent /\ TakesPrimitive
       /\ PollsTimer =>
             /\ NetworkSilent
             /\ from_service_user = <<>>
             /\ timer = "expired"
             /\ event' = Append(event, "Evt18")
       /\ loop = "poll" /\ ~NetworkSilent =>
             /\ Len(from_service_user') >= Len(from_service_user)
             /\ SubSeq(from_service_user', 1, Len(from_service_user))
                   = from_service_user
       /\ loop # "get" =>
             \/ event' = event /\ tick'.put = tick.put
             \/ /\ tick.put = "none"
                /\ tick'.put \in Events
                /\ event' = Append(event, tick'.put)
       /\ loop = "get" =>
             \/ UNCHANGED <<event, loop>>
             \/ /\ loop' = "top"
                /\ IF event = <<>>
                   THEN event' = <<>> /\ tick'.got = "none"
                   ELSE event' = Tail(event) /\ tick'.got = Head(event)
       /\ tick'.got # tick.got /\ tick'.got # "none" => loop = "get"]_vars

\* While the loop runs and an event waits in the event queue, an event is
\* eventually dispatched: with the order above, every event put is
\* dispatched.
EnqueuedEventIsDispatched ==
    (event # <<>> /\ Running) ~> (Dispatched \/ ~Running)

\* C28: each pass polls the network, then the queue of the service user,
\* then the timer, and then takes at most one event from the event queue
\* and dispatches it; events are dispatched in the order they were put, and
\* each event put is dispatched exactly once while the loop runs.
C28_PollOrderAndFifoDispatch == PollOrderAndFifo /\ EnqueuedEventIsDispatched


\* The poll of a pass that started in Sta13 is under way.
PollInSta13 == current_state = "Sta13" /\ loop \in {"poll", "drain"}

\* A step of the poll of a pass in Sta13: no PDU is read or parsed and no
\* event of a PDU is put; bytes are only discarded; Evt17 is put, once, only
\* by the drain when the peer has closed or reset the connection, every
\* byte has been discarded and no error is left on the socket, and the same
\* step clears the client socket; any other step leaves the client socket
\* as it is; without client socket the network raises nothing.
Sta13PollStep ==
    /\ UNCHANGED <<pdu, raw_pdu>>
    /\ loop' \notin {"recv_rest", "recv_length", "recv_body"}
    /\ tick'.at \notin {"pdu", "first", "accept", "connect"}
    /\ tick'.put \notin ReceivedPduEvents \cup {"Evt19", "Evt5", "Evt2"}
    /\ Len(net_in') < Len(net_in) => net_in' = <<>> /\ event' = event
    /\ IF tick'.put = "Evt17"
       THEN /\ loop = "drain"
            /\ remote_client_socket = "open"
            /\ peer \in {"closed", "reset"}
            /\ ~so_error
            /\ net_in = <<>>
            /\ event' = Append(event, "Evt17")
            /\ remote_client_socket' = "None"
       ELSE /\ remote_client_socket' = remote_client_socket
            /\ event' # Append(event, "Evt17")
    /\ loop = "poll" /\ remote_client_socket = "None" =>
          tick'.at \in {"none", "primitive", "timer"}

\* The step ends the drain.
DrainEnds == loop = "drain" /\ loop' # "drain"

\* The step raises the socket.error a reset has left on the client socket.
RaisesSocketError == so_error /\ ~so_error'

Accepts == tick.at # "accept" /\ tick'.at = "accept"

\* C30: the provider has at most one client socket open, the one in
\* remote_client_socket; a connection is taken from the listener only by a
\* poll that finds no client socket set, which takes one connection, sets
\* the client socket and puts exactly one Evt5; no other step takes a
\* connection from the listener or puts Evt5.
C30_OneClientSocket ==
    /\ [](client_sockets = IF remote_client_socket = "None" THEN 0 ELSE 1)
    /\ [][/\ Accepts =>
                /\ remote_client_socket = "None"
                /\ remote_client_socket' = "open"
                /\ backlog' = backlog - 1
                /\ event' = Append(event, "Evt5")
          /\ ~Accepts =>
                /\ backlog' >= backlog
                /\ event' # Append(event, "Evt5")
          /\ loop = "poll" /\ remote_client_socket # "None" =>
                backlog' = backlog]_vars

\* A second connection waits on the listener while the client socket of the
\* first is set and a pass of the loop has just polled the network.
C30_Witness ==
    /\ backlog = 1
    /\ connects_left = 0
    /\ remote_client_socket = "open"
    /\ loop = "get"
    /\ tick.at = "pdu"

\* The events check_incoming_pdu puts for a PDU, check_incoming_primitive
\* for a primitive of the service user.
EventsOfPdus == {"Evt3", "Evt4", "Evt6", "Evt10", "Evt12", "Evt13", "Evt16"}
EventsOfPrimitives ==
    {"Evt1", "Evt7", "Evt8", "Evt9", "Evt11", "Evt14", "Evt15"}

\* run() is about to take an event from the queue and dispatch it.
AtDispatch == loop = "get" /\ event # <<>>

\* C31: when run() is about to dispatch the event of a PDU, self.pdu is a PDU
\* that is translated to that event and self.primitive is its to_params();
\* when it is about to dispatch the event of a primitive of the service
\* user, self.primitive is a primitive classified as that event.
C31_SlotHoldsOriginAtDispatch ==
    AtDispatch =>
        /\ Head(event) \in EventsOfPdus =>
              /\ pdu # NoPdu
              /\ pdu_to_event(pdu) = Head(event)
              /\ primitive = PduToParams(pdu)
        /\ Head(event) \in EventsOfPrimitives =>
              primitive_to_event(primitive) = Head(event)

\* C32: once stop() has returned True, the state machine is in Sta1 whenever
\* the loop has exited afterwards.
C32_StoppedLoopExitsInSta1 ==
    [](stop_ret = "True" => [](loop = "ended" => current_state = "Sta1"))

\* C33: a primitive that waits in from_service_user while the loop is running
\* and not killed is eventually taken from the queue, unless the loop stops
\* running or is killed first, whatever the peer does.
C33_SentPrimitiveIsDequeued ==
    (from_service_user # <<>> /\ Running /\ ~is_killed)
        ~> (from_service_user = <<>> \/ ~Running \/ is_killed)

\* The thread is inside a call of recv_n.
InRecvN == loop \in {"recv_rest", "recv_length", "recv_body"}

\* C34: a call of recv_n in progress when the peer has closed the connection
\* ends: it returns its n bytes or an exception leaves it.
C34_RecvNTerminates == (InRecvN /\ peer = "closed") ~> ~InRecvN

(***************************************************************************)
(* Completion needs a last command fragment; every PDV is consumed.        *)
(***************************************************************************)
\* The PDUs decode has been called on, in order.
DecodedPdus == SubSeq(p_datas, 1, Len(p_datas) - Len(wire))

\* A PDV with control header 3 is among the PDVs decode has examined: the
\* PDVs of the earlier PDUs, and those of the last PDU up to where the walk
\* stopped.
LastCommandFragmentReceived ==
    \E i \in 1..Len(DecodedPdus) :
        \E j \in 1..Len(DecodedPdus[i].data_value_items) :
            /\ Marker(DecodedPdus[i].data_value_items[j]) = 3
            /\ i = Len(DecodedPdus) => j <= Len(rx_log)

\* C35: decode never returns complete for a message unless a last command
\* fragment (control header 3) has been received for it; data fragments
\* (headers 0 or 2) arriving before any last command fragment do not
\* complete the message.
C35_CompleteNeedsLastCommandFragment ==
    rx_ret = "True" => LastCommandFragmentReceived

\* The PDVs of the PDU decode was last called on.
LastDecodedItems == DecodedPdus[Len(DecodedPdus)].data_value_items

\* What decode does with a PDV it goes on from: a fragment is appended to
\* the buffer of its phase, and a last command fragment leaves the decoded
\* command set.
Consumed(e) ==
    /\ e.marker = 1 =>
          e.after.encoded_command_set =
              Append(e.before.encoded_command_set, e.payload)
    /\ e.marker = 0 =>
          e.after.encoded_data_set =
              Append(e.before.encoded_data_set, e.payload)
    /\ e.marker = 3 =>
          e.after.command_set =
              dsutils_decode(Join(Append(e.before.encoded_command_set,
                                         e.payload))).ds

\* C36 as stated: decode consumes every PDV of the P-DATA-TF it is given;
\* PDVs that follow the PDV completing the message are not silently
\* discarded.
C36_ConsumesEveryPdv ==
    (impl = "netdicom2" /\ DecodedPdus # <<>> /\ rx_ret \in {"True", "False"})
        => Len(rx_log) = Len(LastDecodedItems)

\* C36 amended: decode walks the PDVs of the P-DATA-TF in order and consumes
\* each one up to and including the first PDV that completes the message or
\* fails; a call returning not-complete has consumed every PDV, and the PDVs
\* standing after the completing PDV are never read and leave no trace in the
\* message.
C36_ConsumesUpToCompletingPdv ==
    (impl = "netdicom2" /\ DecodedPdus # <<>>) =>
        /\ Len(rx_log) <= Len(LastDecodedItems)
        /\ \A k \in 1..Len(rx_log) :
              /\ rx_log[k].header = LastDecodedItems[k].data_value[1]
              /\ rx_log[k].payload = Payload(LastDecodedItems[k])
              /\ k < Len(rx_log) => rx_log[k].ret = "continue"
              /\ rx_log[k].ret = "continue" => Consumed(rx_log[k])
        /\ rx_ret = "False" => Len(rx_log) = Len(LastDecodedItems)
        /\ rx_log # <<>> =>
              /\ rx = rx_log[Len(rx_log)].after
              /\ rx_log[Len(rx_log)].ret = "continue" <=> rx_ret = "False"
              /\ rx_log[Len(rx_log)].ret # "continue" =>
                    rx_log[Len(rx_log)].ret = rx_ret

\* A PDU of three PDVs whose second PDV completed the message.
C36_Witness ==
    /\ impl = "netdicom2"
    /\ DecodedPdus # <<>>
    /\ rx_ret = "True"
    /\ Len(rx_log) = 2
    /\ Len(LastDecodedItems) = 3

(***************************************************************************)
(* A message whose data set is assigned more than once.                    *)
(***************************************************************************)
\* The PDVs of a list of PDUs that are data fragments.
DataPdvs(pdus) ==
    {i \in 1..Len(pdus) :
        Marker(pdus[i].data_value_items[1]) \in {0, 2}}

\* C37: after any sequence of assignments to a message's data_set, directly
\* or through repeated from_params calls, DataSetType is 0x0101 exactly when
\* the current data_set is empty; assigning an empty data set after a
\* non-empty one restores DataSetType to 0x0101, and encode then emits no
\* data PDV.
C37_DataSetTypeFollowsDataSet ==
    pc = "reassigned" =>
        /\ msg.command_set[DataSetType] = <<NO_DATASET>>
              <=> ~HasDataSet(msg)
        /\ ~HasDataSet(msg) => DataPdvs(encode(msg, 1, LargePdu)) = {}

(***************************************************************************)
(* The accessors of a C-MOVE-RQ message.                                   *)
(***************************************************************************)
\* C38: on a C-MOVE-RQ message move_destination reads and writes the
\* MoveDestination element (0000,0600) and priority the Priority element
\* (0000,0700): after from_params(P) the two accessors give
\* P.move_destination and P.priority, and writing one of them leaves the
\* other element unchanged.
C38_MoveAccessors ==
    [][/\ (impl = "netdicom2" /\ pc' = "built"
              /\ msg'.cls = "CMoveRQMessage") =>
             /\ dimse_property_get(msg', AccessorTag("move_destination"))
                    = params'.move_destination
             /\ dimse_property_get(msg', AccessorTag("priority"))
                    = params'.priority
       /\ \A value \in AccessorValues("move_destination") :
             (msg.cls = "CMoveRQMessage"
                 /\ WriteAccessor("move_destination", value)) =>
                 /\ msg'.command_set[MoveDestination] = value
                 /\ msg'.command_set[Priority] = msg.command_set[Priority]
       /\ \A value \in AccessorValues("priority") :
             (msg.cls = "CMoveRQMessage"
                 /\ WriteAccessor("priority", value)) =>
                 /\ msg'.command_set[Priority] = value
                 /\ msg'.command_set[MoveDestination]
                        = msg.command_set[MoveDestination]]_vars

(***************************************************************************)
(* The two copies of the encoder.                                          *)
(***************************************************************************)
\* The (control header, fragment bytes) of the PDVs of a list of PDUs, each
\* as the header byte followed by the fragment.
PdvsOf(pdus) ==
    [i \in 1..Len(pdus) |-> pdus[i].data_value_items[1].data_value]

\* C39: for the same encoded command set, the same data set and the same
\* max_pdu_length, the legacy encoder and the netdicom2 encoder emit the
\* same sequence of (control header, fragment bytes) PDVs, for every data
\* set value including the empty string and an absent data set.
C39_EncodersAgree ==
    pc = "encoded" =>
        PdvsOf(encode(msg, enc_ctx, enc_max))
            = PdvsOf(LegacyEncode(msg, enc_ctx, enc_max))

====
